---- MODULE Spec2Model ----
(***************************************************************************)
(* jellycli player core: the Player orchestrator loop (package player),    *)
(* its download goroutines, the Audio device state it drives, the Task     *)
(* wrapper that runs the loop, and the play queue with its history.        *)
(***************************************************************************)
EXTENDS Integers, Sequences, FiniteSets, TLC

(***************************************************************************)
(* Bounds of the model.                                                    *)
(***************************************************************************)
\* distinct tracks the catalogue can hand to AddSongs
NSongs == 2
\* successful api.Stream calls (each one allocates a reader)
MaxStreams == 2
\* goroutines started with `go p.downloadSong(0)` that may be alive at once
MaxGoroutines == 1
\* queue lengths and tracks enumerated for the queue-only specification
MaxQueueLen == 4
QSongs == 3
\* tracks and lengths of the queues and histories of the history tests, and
\* the number of calls one test makes
HSongs == 2
MaxHistLen == 2
MaxRun == 3
\* longest list handed to AddSongs / PlayNext by the queue tests, and the most
\* songs one test adds
MaxListLen == 2
MaxAdded == 4
\* StreamBuffer: bytes the server sends after the initial buffering, most bytes
\* one network read returns, most bytes the initial buffering leaves in the
\* buffer, the buffer limit of the background worker, longest slice given to Read
MaxBody == 2
ChunkBytes == 2
InitBuffered == 2
BufferLimit == 2
MaxRead == 2
MaxCloses == 2
MaxTarget == 3
MaxFlushes == 3
MaxStarts == 3
\* seconds of audio the speaker pulls from the streamer in one step
AdvanceS == 3
\* models.Song.Duration of the tracks of the catalogue, in seconds
SongDurationS == 6

(***************************************************************************)
(* Program constants.                                                      *)
(***************************************************************************)
\* make(chan bool, 3)
SongCompleteCap == 3
\* make(chan songMetadata, 3)
SongDownloadedCap == 3
\* make(chan bool, 2)
ChanStopCap == 2
\* (Duration - SongPast.Seconds()) < 5
PrefetchRemainingS == 5
\* GetHistory(10) in Player.Previous
PreviousHistoryN == 10
\* InitialBufferKB * 1024
KiB == 1024
\* minBufferBytes := 64 * 1024
MinBufferBytes == 65536
\* initialBufferTarget = 512 * 1024
DefaultBufferBytes == 524288
\* models.AudioVolumeMax, models.AudioVolumeMin
AudioVolumeMax == 100
AudioVolumeMin == 0
\* config: the volume range and the attenuation range it maps to
AudioMaxVolume == 100
AudioMinVolume == 0
AudioMaxVolumedB == 0
AudioMinVolumedB == -6
VolumeSpan == AudioMaxVolume - AudioMinVolume

Songs == 1 .. NSongs
Readers == 1 .. MaxStreams
\* 0 is the loop goroutine's own (synchronous) call of downloadSong
LoopProc == 0
Procs == 0 .. MaxGoroutines
Goroutines == 1 .. MaxGoroutines

\* models.Song.Duration
Duration(s) == SongDurationS

\* songMetadata: the song and the reader api.Stream returned for it
NoMeta == [song |-> 0, reader |-> 0]
Meta(s, r) == [song |-> s, reader |-> r]

Min(a, b) == IF a < b THEN a ELSE b

VARIABLES
    \* Task
    running,          \* Task.running
    chanStop,         \* Task.chanStop: -1 = nil channel, else values buffered
    loopPc,           \* position of the goroutine running Player.loop
    \* Queue
    queue,            \* Queue items, index 1 = queue index 0
    history,          \* Queue.history, most recent first
    \* Audio
    status,           \* Audio.status
    streamer,         \* Audio.streamer (NoMeta = nil)
    pos,              \* streamer.Position(), in seconds
    ctrlPaused,       \* Audio.ctrl.Paused
    \* Player
    downloadingSong,  \* Player.downloadingSong
    songComplete,     \* values buffered in Player.songComplete
    songDownloaded,   \* values buffered in Player.songDownloaded
    nextSong,         \* Player.nextSong (NoMeta = nil)
    inv,              \* the downloadSong invocations, by goroutine
    reorder,          \* a Player.Reorder call between its check and its swap
    \* environment
    readers,          \* the readers api.Stream has returned
    added,            \* tracks handed to AddSongs so far
    \* observation
    lastCall,         \* the user command the last step called (Next, Previous), if any
    q0,               \* queue-only specification: the queue before the calls
    completions,      \* queue-only specification: songComplete calls made
    h0,               \* queue tests: the history before the calls
    run,              \* queue tests: the calls made so far, in order
    lastOp,           \* queue tests: the last call, its arguments and result
    nAdded,           \* queue tests: songs added so far
    nRemoved,         \* queue tests: songs removed so far
    \* Queue, shuffle
    shuffle,          \* Queue shuffle flag
    unshuffled,       \* the order captured when shuffle was enabled
    \* StreamBuffer
    buff,             \* bytes in StreamBuffer.buff
    downloadDone,     \* StreamBuffer.downloadDone
    downloadErr,      \* StreamBuffer.downloadErr
    cancelDownload,   \* the field StreamBuffer.cancelDownload: "chan" or "nil"
    cancelChan,       \* the channel made for cancelDownload: "open" or "closed"
    ctxCancelled,     \* the request context has been cancelled
    bodyClosed,       \* resp.Body has been closed
    bodyLeft,         \* bytes the server has still to send
    worker,           \* the goroutine running bufferBackground
    reader,           \* the goroutine calling Read
    closePc,          \* position of the goroutine calling Close
    written,          \* bytes written to buff so far
    consumed,         \* bytes Read has returned so far
    blockedAtClose,   \* the current Read was waiting when Close was called
    data,             \* the bytes in StreamBuffer.buff, oldest first
    out,              \* the bytes Read has returned so far, in order
    bodyPos,          \* bytes resp.Body has handed out so far
    closeCalls,       \* calls of Close made so far
    ctxCancels,       \* times the request context's cancel function ran
    chanCloses,       \* times close(s.cancelDownload) ran
    \* NewStreamDownload
    ctor,             \* the call of NewStreamDownload: position, target, result
    tgt,              \* NewStreamDownload: what the target is computed from, and it
    \* Audio, volume and status callbacks
    silent,           \* Audio.volume.Silent
    volumeDB,         \* Audio.volume.Volume, in 1/VolumeSpan dB
    flushes,          \* status snapshots handed to the callbacks (flushStatus runs)
    arg,              \* the argument of the last call on the device
    before,           \* ctrl.Paused and status.Paused before the last call on the device
    \* Task, any loop
    loopSet,          \* Task.loop is not nil
    initialized,      \* Task.initialized
    inLoop,           \* goroutines inside t.loop()
    exiting,          \* goroutines in run() after t.loop() returned
    started,          \* goroutines started by Start so far
    ret,              \* what the last Start or Stop returned: "nil" or "error"
    now,              \* time.Now(), in milliseconds since the program started
    lastApiReport,    \* Player.lastApiReport
    cb,               \* the flushStatus calls under way, one per goroutine
    lastTimeUpdate,   \* when the last time-update report was dispatched
    dispatched        \* the action of the last report dispatched

taskVars == <<running, chanStop, loopPc>>
queueVars == <<queue, history>>
audioVars == <<status, streamer, pos, ctrlPaused>>
playerVars == <<downloadingSong, songComplete, songDownloaded, nextSong, inv, reorder>>
envVars == <<readers, added>>
obsVars == <<lastCall>>
shuffleVars == <<shuffle, unshuffled>>
testVars == <<q0, completions, h0, run, lastOp, nAdded, nRemoved, shuffleVars>>
streamVars == <<buff, downloadDone, downloadErr, cancelDownload, cancelChan, ctxCancelled,
                bodyClosed, bodyLeft, worker, reader, closePc, written, consumed,
                blockedAtClose, data, out, bodyPos>>
closeVars == <<closeCalls, ctxCancels, chanCloses>>
ctorVars == <<ctor, tgt>>
devVars == <<silent, volumeDB, flushes, arg, before>>
loopVars == <<loopSet, initialized, inLoop, exiting, started, ret>>
reportVars == <<now, lastApiReport, cb, lastTimeUpdate, dispatched>>
restVars == <<devVars, loopVars, reportVars>>
extraVars == <<closeVars, ctorVars, restVars>>
vars == <<taskVars, queueVars, audioVars, playerVars, envVars, obsVars, testVars, streamVars,
          extraVars>>

(***************************************************************************)
(* Queue (package player, queue.go).                                       *)
(***************************************************************************)
\* AddSongs: append to the tail
Queue_AddSongs(q, list) == q \o list

\* faulty variant: songComplete puts the completed item at the back of history
Queue_songComplete_history_back(q, h) == IF q = <<>> THEN h ELSE h \o <<Head(q)>>

\* songComplete: the first item moves to the front of history
Queue_songComplete_items(q) == IF q = <<>> THEN q ELSE Tail(q)
Queue_songComplete_history(q, h) == IF q = <<>> THEN h ELSE <<Head(q)>> \o h

\* faulty variant: playLastSong puts the track at the tail of the queue
Queue_playLastSong_items_tail(q, h) == IF h = <<>> THEN q ELSE q \o <<Head(h)>>

\* playLastSong: the front of history moves back to the head of the queue
Queue_playLastSong_items(q, h) == IF h = <<>> THEN q ELSE <<Head(h)>> \o q
Queue_playLastSong_history(h) == IF h = <<>> THEN h ELSE Tail(h)

\* GetHistory(n): up to n most recent items, most recent first
Queue_GetHistory(h, n) == SubSeq(h, 1, Min(n, Len(h)))

\* faulty variant: PlayNext inserts in front of the head
Queue_PlayNext_front(q, list) == list \o q

\* PlayNext: insert after the head, in order; on an empty queue as AddSongs
Queue_PlayNext(q, list) ==
    IF q = <<>> THEN list ELSE <<Head(q)>> \o list \o Tail(q)

\* faulty variant: an index past the end removes the last song
Queue_RemoveSong_clamped(q, index) ==
    IF q = <<>> \/ index < 0 THEN q
    ELSE LET i == Min(index, Len(q) - 1)
         IN SubSeq(q, 1, i) \o SubSeq(q, i + 2, Len(q))

\* RemoveSong(index): bounds-checked delete, index 0-based
Queue_RemoveSong(q, index) ==
    IF index < 0 \/ index >= Len(q) THEN q
    ELSE SubSeq(q, 1, index) \o SubSeq(q, index + 2, Len(q))

\* the orders a shuffle of q may serve: every rearrangement of its entries
Queue_Shuffle(q) ==
    {[i \in 1 .. Len(q) |-> q[f[i]]] : f \in Permutations(1 .. Len(q))}

\* faulty variant: disabling shuffle keeps the shuffled order
Queue_Unshuffle_keep(q, orig) == q

\* disabling shuffle restores the order captured when it was enabled
Queue_Unshuffle(q, orig) == orig

\* Reorder(index, down): down = play earlier (swap with index-1), else later
\* (swap with index+1); index is 0-based as in the code
Swap(q, i, j) == [q EXCEPT ![i] = q[j], ![j] = q[i]]
Queue_ReorderOk(q, index, down) ==
    IF down THEN index >= 1 /\ index < Len(q)
    ELSE index >= 0 /\ index < Len(q) - 1
\* faulty variant: the head is never moved
Queue_Reorder_headFixed(q, index, down) ==
    IF ~Queue_ReorderOk(q, index, down) \/ index = 0 THEN q
    ELSE IF down THEN Swap(q, index + 1, index)
    ELSE Swap(q, index + 1, index + 2)
Queue_Reorder(q, index, down) ==
    IF ~Queue_ReorderOk(q, index, down) THEN q
    ELSE IF down THEN Swap(q, index + 1, index)
    ELSE Swap(q, index + 1, index + 2)

(***************************************************************************)
(* Audio.                                                                  *)
(***************************************************************************)
\* closeOldStream: close the active streamer's reader, streamer = nil
CloseOld(rs) == IF streamer = NoMeta THEN rs ELSE [rs EXCEPT ![streamer.reader] = "closed"]

\* StopMedia
StopMedia_status == [status EXCEPT !.State = "Stopped", !.Action = "Stop", !.Paused = FALSE]

\* getPastTicks, in seconds
getPastTicks == IF streamer = NoMeta THEN 0 ELSE pos

(***************************************************************************)
(* Player.downloadSong.                                                    *)
(***************************************************************************)
IdleInv == [pc |-> "idle", song |-> 0, calls |-> 0, firstErr |-> "none",
            reader |-> 0, ok |-> FALSE, send |-> FALSE]

\* faulty variant: every failure is retried
IsTransient_any(err) == TRUE

\* the known transient failure: strings.Contains(err.Error(), "A task was canceled")
IsTransient(err) == err = "transient"

\* faulty variant: the check ignores the in-flight flag
DlEnter_noFlag(p, index, q) ==
    [inv EXCEPT ![p] = IF q = <<>> THEN [pc |-> "idle", song |-> 0, calls |-> 0,
                                               firstErr |-> "none", reader |-> 0,
                                               ok |-> FALSE, send |-> FALSE]
                       ELSE [pc |-> "set", song |-> q[index + 1], calls |-> 0,
                             firstErr |-> "none", reader |-> 0, ok |-> FALSE,
                             send |-> FALSE]]

\* lines 229-232: the check of the in-flight flag and of the queue q, and the
\* read of the song at index
DlEnter(p, index, q) ==
    [inv EXCEPT ![p] = IF downloadingSong \/ q = <<>> THEN IdleInv
                       ELSE [IdleInv EXCEPT !.pc = "set", !.song = q[index + 1]]]

\* NewPlayer: everything but the queue
InitPlayer ==
    /\ running = FALSE
    /\ chanStop = -1
    /\ loopPc = "notStarted"
    /\ status = [State |-> "Stopped", Action |-> "TimeUpdate", Song |-> 0, Paused |-> FALSE,
                 Volume |-> AudioVolumeMax, Muted |-> FALSE]
    /\ streamer = NoMeta
    /\ pos = 0
    /\ ctrlPaused = FALSE
    /\ downloadingSong = FALSE
    /\ songComplete = 0
    /\ songDownloaded = <<>>
    /\ nextSong = NoMeta
    /\ inv = [p \in Procs |-> IdleInv]
    /\ reorder = [pc |-> "idle", index |-> 0, left |-> FALSE]
    /\ readers = [r \in Readers |-> "unused"]
    /\ added = 0
    /\ lastCall = "none"

\* no queue-test call made yet; newQueue: shuffle off
NoOp == [op |-> "none", index |-> 0, down |-> FALSE, list |-> <<>>, ret |-> FALSE]
InitTest ==
    /\ h0 = <<>>
    /\ run = <<>>
    /\ lastOp = NoOp
    /\ nAdded = 0
    /\ nRemoved = 0
    /\ shuffle = FALSE
    /\ unshuffled = <<>>

\* no call of NewStreamDownload is looked at
NoCtor == [pc |-> "none", http |-> "none", target |-> 0, result |-> "none", end |-> "nil"]
NoTarget == [pc |-> "none", kb |-> 0, parsed |-> FALSE, length |-> 0, duration |-> 0,
             bufS |-> 0, bitrate |-> 0, target |-> 0]
\* newAudio: full volume, not silent; no callback called yet
\* the zero time.Time: lastApiReport before the first report
ZeroTime == -1
\* no flushStatus under way in the goroutine
IdleCb == [pc |-> "idle", action |-> "none", state |-> "none", lastTime |-> ZeroTime]
InitRest ==
    /\ silent = FALSE
    /\ volumeDB = AudioMaxVolumedB * VolumeSpan
    /\ flushes = 0
    /\ arg = 0
    /\ before = <<FALSE, FALSE>>
    /\ loopSet = FALSE
    /\ initialized = FALSE
    /\ inLoop = 0
    /\ exiting = 0
    /\ started = 0
    /\ ret = "nil"
    /\ now = 0
    /\ lastApiReport = ZeroTime
    /\ cb = [p \in Procs |-> IdleCb]
    /\ lastTimeUpdate = ZeroTime
    /\ dispatched = "none"
InitExtra ==
    /\ ctor = NoCtor
    /\ tgt = NoTarget
    /\ InitRest

\* no StreamBuffer is looked at: the Player's downloads are the readers above
IdleWorker == [pc |-> "exit", chan |-> "nil", n |-> 0, err |-> "nil", buf |-> <<>>]
IdleReader == [pc |-> "idle", want |-> 0, n |-> 0, err |-> "nil", waited |-> FALSE]
InitNoStream ==
    /\ buff = 0
    /\ downloadDone = FALSE
    /\ downloadErr = "nil"
    /\ cancelDownload = "nil"
    /\ cancelChan = "open"
    /\ ctxCancelled = FALSE
    /\ bodyClosed = FALSE
    /\ bodyLeft = 0
    /\ worker = IdleWorker
    /\ reader = IdleReader
    /\ closePc = "idle"
    /\ written = 0
    /\ consumed = 0
    /\ blockedAtClose = FALSE
    /\ data = <<>>
    /\ out = <<>>
    /\ bodyPos = 0
    /\ closeCalls = 0
    /\ ctxCancels = 0
    /\ chanCloses = 0

\* NewPlayer, with newQueue: an empty queue and an empty history
Init ==
    /\ InitPlayer
    /\ InitExtra
    /\ InitNoStream
    /\ InitTest
    /\ queue = <<>>
    /\ history = <<>>
    /\ q0 = <<>>
    /\ completions = 0

(***************************************************************************)
(* Audio operations, as the effect of one call on the device.              *)
(***************************************************************************)
\* StopMedia: state Stopped, not paused, the active streamer closed
StopMedia ==
    /\ status' = StopMedia_status
    /\ ctrlPaused' = FALSE
    /\ readers' = CloseOld(readers)
    /\ streamer' = NoMeta
    /\ pos' = 0

\* faulty variant: the reader is left open when the decode fails
DecodeFailed_readers_open(m) == readers

\* unknown format or decode error: metadata.reader.Close()
DecodeFailed_readers(m) == [readers EXCEPT ![m.reader] = "closed"]

\* playSongFromReader: on a decode failure the reader is closed and nothing
\* else changes; otherwise the streamer is swapped, the old one closed, and
\* the status shows the new song Playing
playSongFromReader(m, decodeOk) ==
    IF decodeOk
    THEN /\ streamer' = m
         /\ pos' = 0
         /\ ctrlPaused' = FALSE
         /\ readers' = CloseOld(readers)
         /\ status' = [status EXCEPT !.Paused = FALSE, !.Song = m.song,
                                     !.State = "Playing", !.Action = "Play"]
    ELSE /\ readers' = DecodeFailed_readers(m)
         /\ UNCHANGED <<status, streamer, pos, ctrlPaused>>

\* updateStatus: SongPast = getPastTicks(), action TimeUpdate. SongPast is
\* read back only by the ticker case that has just refreshed it, so it is the
\* value of getPastTicks there and is not kept in status
updateStatus_status == [status EXCEPT !.Action = "TimeUpdate"]

(***************************************************************************)
(* Goroutines started with `go p.downloadSong(0)`.                         *)
(***************************************************************************)
FreeG == {g \in Goroutines : inv[g].pc = "idle"}
Spawn(i) == [i EXCEPT ![CHOOSE g \in FreeG : \A h \in FreeG : g <= h].pc = "check"]

\* Player.queueChanged: with the device Stopped and a non-empty queue, start
\* a download of index 0 on a new goroutine
queueChangedSpawns(q) == status.State = "Stopped" /\ Len(q) > 0
queueChanged(q, i) == IF queueChangedSpawns(q) THEN Spawn(i) ELSE i

(***************************************************************************)
(* Task.                                                                   *)
(***************************************************************************)
\* Task.Start: refused when running; else init the channel, mark running, go run()
Start ==
    /\ ~running
    /\ chanStop' = IF chanStop = -1 THEN 0 ELSE chanStop
    /\ running' = TRUE
    /\ loopPc' = "select"
    /\ lastCall' = "none"
    /\ UNCHANGED <<testVars, streamVars, extraVars>>
    /\ UNCHANGED <<queueVars, audioVars, playerVars, envVars>>

\* Task.Stop: refused when not running; else chanStop <- true
Stop ==
    /\ running
    /\ chanStop < ChanStopCap
    /\ chanStop' = chanStop + 1
    /\ lastCall' = "none"
    /\ UNCHANGED <<testVars, streamVars, extraVars>>
    /\ UNCHANGED <<running, loopPc, queueVars, audioVars, playerVars, envVars>>

(***************************************************************************)
(* Player.loop: one action per case of the select.                         *)
(***************************************************************************)
\* where the loop goroutine is after a handler that may have called downloadSong
LoopPcAfter(i) == IF i[LoopProc].pc = "idle" THEN "select" ELSE "dl"

\* `break` inside a select leaves the select statement, not the enclosing for
AfterStopPc == "select"

\* case <-p.StopChan()
LoopStop ==
    /\ loopPc = "select"
    /\ chanStop > 0
    /\ chanStop' = chanStop - 1
    /\ StopMedia
    /\ loopPc' = AfterStopPc
    /\ lastCall' = "none"
    /\ UNCHANGED <<testVars, streamVars, extraVars>>
    /\ UNCHANGED <<running, queueVars, playerVars, added>>

\* case <-p.songComplete
LoopSongComplete ==
    /\ loopPc = "select"
    /\ songComplete > 0
    /\ songComplete' = songComplete - 1
    /\ queue' = Queue_songComplete_items(queue)
    /\ history' = Queue_songComplete_history(queue, history)
    /\ IF Len(queue') = 0
       THEN /\ StopMedia
            /\ UNCHANGED <<nextSong, inv>>
       ELSE IF nextSong # NoMeta
       THEN /\ \E decodeOk \in BOOLEAN : playSongFromReader(nextSong, decodeOk)
            /\ nextSong' = NoMeta
            /\ UNCHANGED inv
       ELSE /\ inv' = DlEnter(LoopProc, 0, queue')
            /\ UNCHANGED <<audioVars, readers, nextSong>>
    /\ loopPc' = LoopPcAfter(inv')
    /\ lastCall' = "none"
    /\ UNCHANGED <<testVars, streamVars, extraVars>>
    /\ UNCHANGED <<running, chanStop, downloadingSong, songDownloaded, reorder, added>>

\* the condition of the ticker case under which it prefetches index 1
TickPrefetches(st, songPast) ==
    /\ st.Song # 0
    /\ st.State = "Playing"
    /\ Duration(st.Song) - songPast < PrefetchRemainingS
    /\ ~downloadingSong
    /\ nextSong = NoMeta
    /\ Len(queue) >= 2

\* case <-ticker.C
LoopTick ==
    /\ loopPc = "select"
    /\ status' = updateStatus_status
    /\ inv' = IF TickPrefetches(status', getPastTicks) THEN DlEnter(LoopProc, 1, queue) ELSE inv
    /\ loopPc' = LoopPcAfter(inv')
    /\ lastCall' = "tick"
    /\ UNCHANGED <<testVars, streamVars, extraVars>>
    /\ UNCHANGED <<running, chanStop, queueVars, streamer, pos, ctrlPaused, downloadingSong,
                   songComplete, songDownloaded, nextSong, reorder, envVars>>

\* case metadata := <-p.songDownloaded
LoopSongDownloaded ==
    /\ loopPc = "select"
    /\ songDownloaded # <<>>
    /\ songDownloaded' = Tail(songDownloaded)
    /\ IF status.State = "Stopped"
       THEN /\ \E decodeOk \in BOOLEAN : playSongFromReader(Head(songDownloaded), decodeOk)
            /\ nextSong' = NoMeta
       ELSE /\ nextSong' = Head(songDownloaded)
            /\ UNCHANGED <<audioVars, readers>>
    /\ lastCall' = "none"
    /\ UNCHANGED <<testVars, streamVars, extraVars>>
    /\ UNCHANGED <<taskVars, queueVars, downloadingSong, songComplete, inv, reorder, added>>

(***************************************************************************)
(* Player.downloadSong, one action per step of an invocation p.            *)
(***************************************************************************)
\* where the loop goroutine is once invocation p has stepped to record r
LoopPcDl(p, r) == IF p = LoopProc /\ r.pc = "idle" THEN "select" ELSE loopPc

\* a goroutine reaches the check of lines 229-232
DlCheck(p) ==
    /\ p \in Goroutines
    /\ inv[p].pc = "check"
    /\ inv' = DlEnter(p, 0, queue)
    /\ UNCHANGED <<taskVars, queueVars, audioVars, downloadingSong, songComplete,
                   songDownloaded, nextSong, reorder, envVars>>
    /\ lastCall' = "none"
    /\ UNCHANGED <<testVars, streamVars, extraVars>>

\* lines 234-236: p.downloadingSong = true
DlSet(p) ==
    /\ inv[p].pc = "set"
    /\ downloadingSong' = TRUE
    /\ inv' = [inv EXCEPT ![p].pc = "stream"]
    /\ UNCHANGED <<taskVars, queueVars, audioVars, songComplete, songDownloaded, nextSong,
                   reorder, envVars>>
    /\ lastCall' = "none"
    /\ UNCHANGED <<testVars, streamVars, extraVars>>

\* a successful api.Stream: a new reader
StreamOk(p) ==
    /\ \E r \in Readers : readers[r] = "unused"
    /\ LET r == CHOOSE x \in Readers : readers[x] = "unused" /\ \A y \in Readers : readers[y] = "unused" => x <= y
       IN /\ readers' = [readers EXCEPT ![r] = "open"]
          /\ inv' = [inv EXCEPT ![p].pc = "reset", ![p].calls = @ + 1, ![p].reader = r,
                                ![p].ok = TRUE]

\* line 239: the first api.Stream call
DlStream(p) ==
    /\ inv[p].pc = "stream"
    /\ \/ StreamOk(p)
       \/ \E err \in {"transient", "other"} :
            /\ inv' = [inv EXCEPT ![p].pc = IF IsTransient(err) THEN "retry" ELSE "reset",
                                  ![p].calls = @ + 1, ![p].firstErr = err]
            /\ UNCHANGED readers
    /\ UNCHANGED <<taskVars, queueVars, audioVars, downloadingSong, songComplete,
                   songDownloaded, nextSong, reorder, added>>
    /\ lastCall' = "none"
    /\ UNCHANGED <<testVars, streamVars, extraVars>>

\* lines 244-250: after the sleep, the second api.Stream call
DlRetry(p) ==
    /\ inv[p].pc = "retry"
    /\ \/ StreamOk(p)
       \/ /\ inv' = [inv EXCEPT ![p].pc = "reset", ![p].calls = @ + 1]
          /\ UNCHANGED readers
    /\ UNCHANGED <<taskVars, queueVars, audioVars, downloadingSong, songComplete,
                   songDownloaded, nextSong, reorder, added>>
    /\ lastCall' = "none"
    /\ UNCHANGED <<testVars, streamVars, extraVars>>

\* lines 257-290: after a successful download the metadata lookups; the
\* deferred send is registered only when GetArtist succeeds
SendRegistered(ok, artistOk) == ok /\ artistOk

\* faulty variant: the flag is reset only after a successful download
DlReset_flag_onlyOk(ok) == ~ok

\* lines 292-294: p.downloadingSong = false, whatever the download gave
DlReset_flag(ok) == FALSE

\* lines 257-294: the lookups, then p.downloadingSong = false; the deferred
\* send is still to run
DlReset(p) ==
    /\ inv[p].pc = "reset"
    /\ downloadingSong' = DlReset_flag(inv[p].ok)
    /\ \E artistOk \in BOOLEAN :
         inv' = [inv EXCEPT ![p] = IF SendRegistered(inv[p].ok, artistOk)
                                   THEN [@ EXCEPT !.pc = "send", !.send = TRUE]
                                   ELSE IdleInv]
    /\ loopPc' = LoopPcDl(p, inv'[p])
    /\ UNCHANGED <<running, chanStop, queueVars, audioVars, songComplete, songDownloaded,
                   nextSong, reorder, envVars>>
    /\ lastCall' = "none"
    /\ UNCHANGED <<testVars, streamVars, extraVars>>

\* the deferred f(): p.songDownloaded <- metadata
DlSend(p) ==
    /\ inv[p].pc = "send"
    /\ Len(songDownloaded) < SongDownloadedCap
    /\ songDownloaded' = Append(songDownloaded, Meta(inv[p].song, inv[p].reader))
    /\ inv' = [inv EXCEPT ![p] = IdleInv]
    /\ loopPc' = LoopPcDl(p, inv'[p])
    /\ UNCHANGED <<running, chanStop, queueVars, audioVars, downloadingSong, songComplete,
                   nextSong, reorder, envVars>>
    /\ lastCall' = "none"
    /\ UNCHANGED <<testVars, streamVars, extraVars>>

(***************************************************************************)
(* User commands.                                                          *)
(***************************************************************************)
\* Queue.AddSongs with n new tracks, then the queue-changed callback
AddSongs(n) ==
    /\ added + n <= NSongs
    /\ LET q == Queue_AddSongs(queue, [i \in 1 .. n |-> added + i])
       IN /\ queueChangedSpawns(q) => FreeG # {}
          /\ queue' = q
          /\ inv' = queueChanged(q, inv)
    /\ added' = added + n
    /\ lastCall' = "none"
    /\ UNCHANGED <<testVars, streamVars, extraVars>>
    /\ UNCHANGED <<taskVars, history, audioVars, downloadingSong, songComplete,
                   songDownloaded, nextSong, reorder, readers>>

\* faulty variant: Next needs only one queued track
NextAllowed_one(q) == Len(q) > 0

\* the guard of Player.Next
NextAllowed(q) == Len(q) > 1

\* Player.Next
Next_ ==
    /\ lastCall' = "Next"
    /\ UNCHANGED <<testVars, streamVars, extraVars>>
    /\ IF NextAllowed(queue)
       THEN /\ FreeG # {}
            /\ StopMedia
            /\ queue' = Queue_songComplete_items(queue)
            /\ history' = Queue_songComplete_history(queue, history)
            /\ inv' = Spawn(inv)
       ELSE UNCHANGED <<queueVars, audioVars, inv, readers>>
    /\ UNCHANGED <<taskVars, downloadingSong, songComplete, songDownloaded, nextSong,
                   reorder, added>>

\* faulty variant: Previous does not look at the history
PreviousAllowed_always(h) == TRUE

\* the guard of Player.Previous
PreviousAllowed(h) == Len(Queue_GetHistory(h, PreviousHistoryN)) > 0

\* Player.Previous
Previous ==
    /\ lastCall' = "Previous"
    /\ UNCHANGED <<testVars, streamVars, extraVars>>
    /\ IF PreviousAllowed(history)
       THEN /\ FreeG # {}
            /\ status' = [StopMedia_status EXCEPT !.Action = "Previous"]
            /\ ctrlPaused' = FALSE
            /\ readers' = CloseOld(readers)
            /\ streamer' = NoMeta
            /\ pos' = 0
            /\ queue' = Queue_playLastSong_items(queue, history)
            /\ history' = Queue_playLastSong_history(history)
            /\ inv' = Spawn(inv)
       ELSE UNCHANGED <<queueVars, audioVars, inv, readers>>
    /\ UNCHANGED <<taskVars, downloadingSong, songComplete, songDownloaded, nextSong,
                   reorder, added>>

\* Player.Reorder refuses: the ongoing song is not reordered
ReorderRefused(state, index, left) ==
    state = "Playing" /\ (index = 0 \/ (index = 1 /\ left))

\* Player.Reorder, lines 416-423: the read of p.status.State and the refusal
ReorderCheck(index, left) ==
    /\ reorder.pc = "idle"
    /\ reorder' = IF ReorderRefused(status.State, index, left) THEN reorder
                  ELSE [pc |-> "swap", index |-> index, left |-> left]
    /\ lastCall' = "none"
    /\ UNCHANGED <<testVars, streamVars, extraVars>>
    /\ UNCHANGED <<taskVars, queueVars, audioVars, downloadingSong, songComplete,
                   songDownloaded, nextSong, inv, envVars>>

\* Player.Reorder, line 425: p.Queue.Reorder, with the callback on a swap
ReorderSwap ==
    /\ reorder.pc = "swap"
    /\ LET q == Queue_Reorder(queue, reorder.index, reorder.left)
       IN /\ (q # queue /\ queueChangedSpawns(q)) => FreeG # {}
          /\ queue' = q
          /\ inv' = IF q # queue THEN queueChanged(q, inv) ELSE inv
    /\ reorder' = [pc |-> "idle", index |-> 0, left |-> FALSE]
    /\ UNCHANGED <<taskVars, history, audioVars, downloadingSong, songComplete,
                   songDownloaded, nextSong, envVars>>
    /\ lastCall' = "none"
    /\ UNCHANGED <<testVars, streamVars, extraVars>>

(***************************************************************************)
(* The speaker goroutine.                                                  *)
(***************************************************************************)
\* the speaker pulls one second of samples from the active streamer
Advance ==
    /\ streamer # NoMeta
    /\ ~ctrlPaused
    /\ pos < Duration(streamer.song)
    /\ pos' = Min(pos + AdvanceS, Duration(streamer.song))
    /\ UNCHANGED <<taskVars, queueVars, status, streamer, ctrlPaused, playerVars, envVars>>
    /\ lastCall' = "none"
    /\ UNCHANGED <<testVars, streamVars, extraVars>>

\* Audio.streamCompleted, the callback at the end of the stream
streamCompleted ==
    /\ streamer # NoMeta
    /\ ~ctrlPaused
    /\ pos = Duration(streamer.song)
    /\ songComplete < SongCompleteCap
    /\ readers' = CloseOld(readers)
    /\ streamer' = NoMeta
    /\ pos' = 0
    /\ songComplete' = songComplete + 1
    /\ UNCHANGED <<taskVars, queueVars, status, ctrlPaused, downloadingSong, songDownloaded,
                   nextSong, inv, reorder, added>>
    /\ lastCall' = "none"
    /\ UNCHANGED <<testVars, streamVars, extraVars>>

Next ==
    \/ Start
    \/ Stop
    \/ LoopStop
    \/ LoopSongComplete
    \/ LoopTick
    \/ LoopSongDownloaded
    \/ \E p \in Procs : DlCheck(p)
    \/ \E p \in Procs : DlSet(p)
    \/ \E p \in Procs : DlStream(p)
    \/ \E p \in Procs : DlRetry(p)
    \/ \E p \in Procs : DlReset(p)
    \/ \E p \in Procs : DlSend(p)
    \/ \E n \in 1 .. 2 : AddSongs(n)
    \/ Next_
    \/ Previous
    \/ \E index \in 0 .. 1, left \in BOOLEAN : ReorderCheck(index, left)
    \/ ReorderSwap
    \/ Advance
    \/ streamCompleted

Spec == Init /\ [][Next]_vars

(***************************************************************************)
(* The queue alone: the calls of the queue tests on every short queue.     *)
(***************************************************************************)
SeqsUpTo(S, n) == UNION {[1 .. m -> S] : m \in 0 .. n}
Reverse(s) == [i \in 1 .. Len(s) |-> s[Len(s) + 1 - i]]

\* q := newQueue(); q.AddSongs(songs)
QueueInit ==
    /\ InitPlayer
    /\ InitExtra
    /\ InitNoStream
    /\ InitTest
    /\ queue \in SeqsUpTo(1 .. QSongs, MaxQueueLen)
    /\ history = <<>>
    /\ q0 = queue
    /\ completions = 0

\* q.songComplete() on a non-empty queue
Test_songComplete ==
    /\ queue # <<>>
    /\ queue' = Queue_songComplete_items(queue)
    /\ history' = Queue_songComplete_history(queue, history)
    /\ completions' = completions + 1
    /\ UNCHANGED <<taskVars, audioVars, playerVars, envVars, obsVars, q0>>
    /\ UNCHANGED <<h0, run, lastOp, nAdded, nRemoved, shuffleVars, streamVars, extraVars>>

QueueNext == Test_songComplete

SpecQueue == QueueInit /\ [][QueueNext]_vars

(***************************************************************************)
(* The queue and its history: songComplete and playLastSong as             *)
(* TestQueue_playLastSong calls them, and Player.Previous, on every short  *)
(* queue and history.                                                      *)
(***************************************************************************)
\* q := newQueue(); q.history = history; q.AddSongs(queue)
HistoryInit ==
    /\ InitPlayer
    /\ InitExtra
    /\ InitNoStream
    /\ queue \in SeqsUpTo(1 .. HSongs, MaxHistLen)
    /\ history \in SeqsUpTo(1 .. HSongs, MaxHistLen)
    /\ q0 = queue
    /\ h0 = history
    /\ completions = 0
    /\ run = <<>>
    /\ lastOp = NoOp
    /\ nAdded = 0
    /\ nRemoved = 0
    /\ shuffle = FALSE
    /\ unshuffled = <<>>

\* a test makes its calls on the queue alone, before any Player command
TestCall(op) ==
    /\ lastCall = "none"
    /\ Len(run) < MaxRun
    /\ run' = Append(run, op)
    /\ UNCHANGED <<taskVars, audioVars, playerVars, envVars, obsVars>>
    /\ UNCHANGED <<q0, completions, h0, lastOp, nAdded, nRemoved, shuffleVars, streamVars, extraVars>>

\* q.songComplete() on a non-empty queue
Test_History_songComplete ==
    /\ queue # <<>>
    /\ queue' = Queue_songComplete_items(queue)
    /\ history' = Queue_songComplete_history(queue, history)
    /\ TestCall("songComplete")

\* q.playLastSong()
Test_playLastSong ==
    /\ queue' = Queue_playLastSong_items(queue, history)
    /\ history' = Queue_playLastSong_history(history)
    /\ TestCall("playLastSong")

HistoryNext ==
    \/ Test_History_songComplete
    \/ Test_playLastSong
    \/ Previous

SpecHistory == HistoryInit /\ [][HistoryNext]_vars

(***************************************************************************)
(* The queue under edits: AddSongs, PlayNext, RemoveSong and Reorder as    *)
(* the queue tests call them, from an empty queue.                         *)
(***************************************************************************)
\* the lists and the indexes the tests pass
TestLists == SeqsUpTo(1 .. QSongs, MaxListLen)
TestIndexes == -1 .. MaxQueueLen

\* q := newQueue()
EditInit ==
    /\ InitPlayer
    /\ InitExtra
    /\ InitNoStream
    /\ InitTest
    /\ queue = <<>>
    /\ history = <<>>
    /\ q0 = <<>>
    /\ completions = 0

\* what a call on the queue alone leaves as it was
EditFrame ==
    /\ UNCHANGED <<taskVars, history, audioVars, playerVars, envVars, obsVars>>
    /\ UNCHANGED <<q0, completions, h0, run, shuffleVars, streamVars, extraVars>>

\* q.AddSongs(list)
Test_AddSongs(list) ==
    /\ Len(queue) + Len(list) <= MaxQueueLen
    /\ nAdded + Len(list) <= MaxAdded
    /\ queue' = Queue_AddSongs(queue, list)
    /\ nAdded' = nAdded + Len(list)
    /\ lastOp' = [NoOp EXCEPT !.op = "AddSongs", !.list = list]
    /\ UNCHANGED nRemoved
    /\ EditFrame

\* q.PlayNext(list)
Test_PlayNext(list) ==
    /\ Len(queue) + Len(list) <= MaxQueueLen
    /\ nAdded + Len(list) <= MaxAdded
    /\ queue' = Queue_PlayNext(queue, list)
    /\ nAdded' = nAdded + Len(list)
    /\ lastOp' = [NoOp EXCEPT !.op = "PlayNext", !.list = list]
    /\ UNCHANGED nRemoved
    /\ EditFrame

\* q.RemoveSong(index)
Test_RemoveSong(index) ==
    /\ queue' = Queue_RemoveSong(queue, index)
    /\ nRemoved' = IF index >= 0 /\ index < Len(queue) THEN nRemoved + 1 ELSE nRemoved
    /\ lastOp' = [NoOp EXCEPT !.op = "RemoveSong", !.index = index]
    /\ UNCHANGED nAdded
    /\ EditFrame

\* q.Reorder(index, down)
Test_Reorder(index, down) ==
    /\ queue' = Queue_Reorder(queue, index, down)
    /\ lastOp' = [NoOp EXCEPT !.op = "Reorder", !.index = index, !.down = down,
                              !.ret = Queue_ReorderOk(queue, index, down)]
    /\ UNCHANGED <<nAdded, nRemoved>>
    /\ EditFrame

EditNext ==
    \/ \E list \in TestLists : Test_AddSongs(list)
    \/ \E list \in TestLists : Test_PlayNext(list)
    \/ \E index \in TestIndexes : Test_RemoveSong(index)
    \/ \E index \in TestIndexes, down \in BOOLEAN : Test_Reorder(index, down)

SpecQueueEdit == EditInit /\ [][EditNext]_vars

(***************************************************************************)
(* Shuffle: SetShuffle on every short queue, with no other call between.   *)
(***************************************************************************)
\* q.ClearQueue(true); q.SetShuffle(false); q.AddSongs(songs)
ShuffleInit ==
    /\ InitPlayer
    /\ InitExtra
    /\ InitNoStream
    /\ InitTest
    /\ queue \in SeqsUpTo(1 .. QSongs, MaxQueueLen)
    /\ history = <<>>
    /\ q0 = queue
    /\ completions = 0

\* Player.SetShuffle(enabled): Queue.SetShuffle, then Audio.SetShuffle, which
\* records the flag and the action in the status. Enabling captures the order
\* and serves a rearrangement; enabling again serves a rearrangement of the
\* captured order; disabling restores it.
SetShuffle(enabled) ==
    /\ IF enabled
       THEN /\ shuffle' = TRUE
            /\ unshuffled' = IF shuffle THEN unshuffled ELSE queue
            /\ queue' \in Queue_Shuffle(unshuffled')
       ELSE /\ shuffle' = FALSE
            /\ unshuffled' = <<>>
            /\ queue' = IF shuffle THEN Queue_Unshuffle(queue, unshuffled) ELSE queue
    /\ status' = [status EXCEPT !.Action = "ShuffleChanged"]
    /\ UNCHANGED <<taskVars, history, streamer, pos, ctrlPaused, playerVars, envVars, obsVars>>
    /\ UNCHANGED <<q0, completions, h0, run, lastOp, nAdded, nRemoved, streamVars, extraVars>>

ShuffleNext == \E enabled \in BOOLEAN : SetShuffle(enabled)

SpecShuffle == ShuffleInit /\ [][ShuffleNext]_vars

(***************************************************************************)
(* StreamBuffer (package api): one session after NewStreamDownload has     *)
(* returned it, its background worker, a consumer calling Read and a       *)
(* goroutine calling Close.                                                *)
(***************************************************************************)
\* NewStreamDownload returned the stream: the initial buffering has left data
\* in the buffer, and `go stream.bufferBackground()` has been started
StreamInit ==
    /\ InitPlayer
    /\ InitExtra
    /\ InitTest
    /\ queue = <<>>
    /\ history = <<>>
    /\ q0 = <<>>
    /\ completions = 0
    /\ buff \in 1 .. InitBuffered
    /\ written = buff
    /\ consumed = 0
    /\ bodyLeft \in 0 .. MaxBody
    /\ downloadDone = FALSE
    /\ downloadErr = "nil"
    /\ cancelDownload = "chan"
    /\ cancelChan = "open"
    /\ ctxCancelled = FALSE
    /\ bodyClosed = FALSE
    /\ worker = [IdleWorker EXCEPT !.pc = "loop"]
    /\ reader = IdleReader
    /\ closePc = "idle"
    /\ blockedAtClose = FALSE
    /\ data = [i \in 1 .. buff |-> i]
    /\ out = <<>>
    /\ bodyPos = buff
    /\ closeCalls = 0
    /\ ctxCancels = 0
    /\ chanCloses = 0

\* what a step of the stream leaves as it was
StreamFrame ==
    UNCHANGED <<taskVars, queueVars, audioVars, playerVars, envVars, obsVars, testVars,
                ctorVars, restVars>>

\* faulty variant: Read never waits (it returns whatever the buffer holds)
MustWait_never == FALSE

\* Read, the condition of the wait loop: buffer empty and download not done
MustWait == buff = 0 /\ ~downloadDone

\* Read past the wait loop: the bytes it returns for a slice of want bytes
Read_n(want) == IF buff > 0 THEN Min(want, buff) ELSE 0

\* faulty variant: Read reports no error once the buffer is drained
Read_err_nil == "nil"

\* Read past the wait loop: the error it returns
Read_err ==
    IF buff > 0 THEN "nil" ELSE IF downloadDone THEN downloadErr ELSE "unexpectedEOF"

\* Read under the lock: wait on the condition, or take the bytes and return
ReadUnderLock(want) ==
    IF MustWait
    THEN /\ reader' = [pc |-> "waiting", want |-> want, n |-> 0, err |-> "nil",
                       waited |-> TRUE]
         /\ UNCHANGED <<data, out, bodyPos, buff, consumed, data, out>>
    ELSE /\ reader' = [pc |-> "returned", want |-> want, n |-> Read_n(want),
                       err |-> Read_err, waited |-> reader.pc = "woken"]
         /\ buff' = buff - Read_n(want)
         /\ consumed' = consumed + Read_n(want)
         /\ out' = out \o SubSeq(data, 1, Read_n(want))
         /\ data' = SubSeq(data, Read_n(want) + 1, Len(data))

\* s.Read(p) with len(p) = want > 0
Read(want) ==
    /\ reader.pc \in {"idle", "returned"}
    /\ ReadUnderLock(want)
    /\ blockedAtClose' = FALSE
    /\ UNCHANGED <<bodyPos, downloadDone, downloadErr, cancelDownload, cancelChan, ctxCancelled,
                   bodyClosed, bodyLeft, worker, closePc, written, closeVars>>
    /\ StreamFrame

\* s.cond.Wait() returns with the lock held: the loop condition is tested again
ReadWake ==
    /\ reader.pc = "woken"
    /\ ReadUnderLock(reader.want)
    /\ UNCHANGED <<bodyPos, downloadDone, downloadErr, cancelDownload, cancelChan, ctxCancelled,
                   bodyClosed, bodyLeft, worker, closePc, written, blockedAtClose,
                   closeVars>>
    /\ StreamFrame

\* s.cond.Broadcast(): a waiting reader is made runnable
Broadcast(r) == IF r.pc = "waiting" THEN [r EXCEPT !.pc = "woken"] ELSE r

\* what a step of the worker leaves as it was
WorkerFrame ==
    /\ UNCHANGED <<cancelDownload, cancelChan, ctxCancelled, bodyClosed, closePc,
                   consumed, blockedAtClose, closeVars>>
    /\ StreamFrame

\* bufferBackground, top of the loop: the select reads the field
\* s.cancelDownload (without the lock) and waits on the ticker and on it
WorkerSelect ==
    /\ worker.pc = "loop"
    /\ worker' = [worker EXCEPT !.pc = "select", !.chan = cancelDownload]
    /\ UNCHANGED <<data, out, bodyPos, buff, downloadDone, downloadErr, bodyLeft, reader, written>>
    /\ WorkerFrame

\* faulty variant: the worker reads on every tick
BelowLimit_always(currentLen) == TRUE

\* if currentLen < bufferLimitBytes
BelowLimit(currentLen) == currentLen < BufferLimit

\* case <-ticker.C: read only while the buffer is below the limit
WorkerTick ==
    /\ worker.pc = "select"
    /\ worker' = [worker EXCEPT !.pc = IF BelowLimit(buff) THEN "readData" ELSE "loop"]
    /\ UNCHANGED <<data, out, bodyPos, buff, downloadDone, downloadErr, bodyLeft, reader, written>>
    /\ WorkerFrame

\* case <-s.cancelDownload: the channel the select holds has been closed
WorkerCancel ==
    /\ worker.pc = "select"
    /\ worker.chan = "chan"
    /\ cancelChan = "closed"
    /\ worker' = [worker EXCEPT !.pc = "cancelled"]
    /\ UNCHANGED <<data, out, bodyPos, buff, downloadDone, downloadErr, bodyLeft, reader, written>>
    /\ WorkerFrame

\* the cancel case: downloadDone = true, downloadErr = io.ErrClosedPipe
WorkerCancelled ==
    /\ worker.pc = "cancelled"
    /\ downloadDone' = TRUE
    /\ downloadErr' = "closed"
    /\ worker' = [worker EXCEPT !.pc = "broadcastExit"]
    /\ UNCHANGED <<data, out, bodyPos, buff, bodyLeft, reader, written>>
    /\ WorkerFrame

\* readData, the select with default on s.cancelDownload (read without the
\* lock): a closed channel ends the read with io.ErrClosedPipe
ReadDataCheck ==
    /\ worker.pc = "readData"
    /\ worker' = IF cancelDownload = "chan" /\ cancelChan = "closed"
                 THEN [worker EXCEPT !.pc = "finished", !.n = 0, !.err = "closed"]
                 ELSE [worker EXCEPT !.pc = "net"]
    /\ UNCHANGED <<data, out, bodyPos, buff, downloadDone, downloadErr, bodyLeft, reader, written>>
    /\ WorkerFrame

\* what s.resp.Body.Read can return: after the context is cancelled or the
\* body closed, the error of the transport; else a chunk, io.EOF at the end of
\* the body, or a network error
NetOutcomes ==
    IF ctxCancelled \/ bodyClosed THEN {[n |-> 0, err |-> "canceled"]}
    ELSE {[n |-> k, err |-> "nil"] : k \in 1 .. Min(ChunkBytes, bodyLeft)}
         \cup (IF bodyLeft = 0 THEN {[n |-> 0, err |-> "EOF"]} ELSE {})
         \cup {[n |-> 0, err |-> "fetch"]}

\* buf := make([]byte, readChunkSize) after Body.Read has put its next n bytes
\* at the front of it; the bytes of the source are numbered in order
Body_Read(n) == [i \in 1 .. ChunkBytes |-> IF i <= n THEN bodyPos + i ELSE 0]

\* nHttp, readErr := s.resp.Body.Read(buf) returns
NetRead ==
    /\ worker.pc = "net"
    /\ \E o \in NetOutcomes :
         /\ worker' = [worker EXCEPT !.pc = "write", !.n = o.n, !.err = o.err,
                                     !.buf = Body_Read(o.n)]
         /\ bodyLeft' = bodyLeft - o.n
         /\ bodyPos' = bodyPos + o.n
    /\ UNCHANGED <<data, out, buff, downloadDone, downloadErr, reader, written>>
    /\ WorkerFrame

\* faulty variant: the whole chunk buffer is written
WrittenSlice_whole(buf, nHttp) == buf

\* buf[:nHttp]: only the bytes read are written; nothing when nHttp = 0
WrittenSlice(buf, nHttp) == SubSeq(buf, 1, nHttp)

\* readData under the lock: s.buff.Write(buf[:nHttp]) if nHttp > 0; then it
\* returns finished on io.EOF or any other read error
WriteData ==
    /\ worker.pc = "write"
    /\ LET p == IF worker.n > 0 THEN WrittenSlice(worker.buf, worker.n) ELSE <<>>
       IN /\ data' = data \o p
          /\ buff' = buff + Len(p)
          /\ written' = written + Len(p)
    /\ worker' = [worker EXCEPT !.pc = IF worker.err = "nil" THEN "broadcast" ELSE "finished",
                                !.n = 0, !.buf = <<>>]
    /\ UNCHANGED <<out, bodyPos, downloadDone, downloadErr, bodyLeft, reader>>
    /\ WorkerFrame

\* readFinished: downloadDone = true, downloadErr = readErr
WorkerFinished ==
    /\ worker.pc = "finished"
    /\ downloadDone' = TRUE
    /\ downloadErr' = worker.err
    /\ worker' = [worker EXCEPT !.pc = "broadcastExit"]
    /\ UNCHANGED <<data, out, bodyPos, buff, bodyLeft, reader, written>>
    /\ WorkerFrame

\* s.cond.Broadcast(), then the next round of the loop or `break loop`
WorkerBroadcast ==
    /\ worker.pc \in {"broadcast", "broadcastExit"}
    /\ reader' = Broadcast(reader)
    /\ worker' = [IdleWorker EXCEPT !.pc = IF worker.pc = "broadcast" THEN "loop" ELSE "exit"]
    /\ UNCHANGED <<data, out, bodyPos, buff, downloadDone, downloadErr, bodyLeft, written>>
    /\ WorkerFrame

\* Close, first part: s.cancelCtx() and s.cancelCtx = nil, unless the field is
\* nil already (ctxCancelled: the field has been cleared)
CloseCall ==
    /\ closePc \in {"idle", "done"}
    /\ closeCalls < MaxCloses
    /\ closeCalls' = closeCalls + 1
    /\ ctxCancelled' = TRUE
    /\ ctxCancels' = IF ctxCancelled THEN ctxCancels ELSE ctxCancels + 1
    /\ closePc' = "signal"
    /\ blockedAtClose' = IF closeCalls = 0 THEN reader.pc = "waiting" ELSE blockedAtClose
    /\ UNCHANGED <<data, out, bodyPos, buff, downloadDone, downloadErr, cancelDownload,
                   cancelChan, bodyClosed, bodyLeft, worker, reader, written, consumed,
                   chanCloses>>
    /\ StreamFrame

\* Close, `if s.cancelDownload != nil`: the non-blocking send, taken by a
\* worker waiting in its select on this channel, then close(s.cancelDownload).
\* A send on, or a close of, a closed channel panics.
CloseSignal ==
    /\ closePc = "signal"
    /\ IF cancelDownload = "nil"
       THEN /\ closePc' = "body"
            /\ UNCHANGED <<worker, cancelChan, chanCloses>>
       ELSE IF cancelChan = "closed"
       THEN /\ closePc' = "panic"
            /\ UNCHANGED <<worker, cancelChan, chanCloses>>
       ELSE /\ worker' = IF worker.pc = "select" /\ worker.chan = "chan"
                         THEN [worker EXCEPT !.pc = "cancelled"] ELSE worker
            /\ cancelChan' = "closed"
            /\ chanCloses' = chanCloses + 1
            /\ closePc' = "clear"
    /\ UNCHANGED <<data, out, bodyPos, buff, downloadDone, downloadErr, cancelDownload,
                   ctxCancelled, bodyClosed, bodyLeft, reader, written, consumed,
                   blockedAtClose, closeCalls, ctxCancels>>
    /\ StreamFrame

\* faulty variant: Close leaves the channel in the field
Close_cancelDownload_kept == "chan"

\* Close: s.cancelDownload = nil // Prevent closing closed channel
Close_cancelDownload == "nil"

\* Close: s.cancelDownload = nil (without the lock)
CloseClear ==
    /\ closePc = "clear"
    /\ cancelDownload' = Close_cancelDownload
    /\ closePc' = "body"
    /\ UNCHANGED <<data, out, bodyPos, buff, downloadDone, downloadErr, cancelChan,
                   ctxCancelled, bodyClosed, bodyLeft, worker, reader, written, consumed,
                   blockedAtClose, closeVars>>
    /\ StreamFrame

\* Close: return s.resp.Body.Close() (closing a closed body returns)
CloseBody ==
    /\ closePc = "body"
    /\ bodyClosed' = TRUE
    /\ closePc' = "done"
    /\ UNCHANGED <<data, out, bodyPos, buff, downloadDone, downloadErr, cancelDownload,
                   cancelChan, ctxCancelled, bodyLeft, worker, reader, written, consumed,
                   blockedAtClose, closeVars>>
    /\ StreamFrame

WorkerStep ==
    \/ WorkerSelect
    \/ WorkerTick
    \/ WorkerCancel
    \/ WorkerCancelled
    \/ ReadDataCheck
    \/ NetRead
    \/ WriteData
    \/ WorkerFinished
    \/ WorkerBroadcast

StreamNext ==
    \/ \E want \in 1 .. MaxRead : Read(want)
    \/ ReadWake
    \/ WorkerStep
    \/ CloseCall
    \/ CloseSignal
    \/ CloseClear
    \/ CloseBody

SpecStream == StreamInit /\ [][StreamNext]_vars

\* the worker goroutine and a reader made runnable are scheduled
SpecStreamFair == SpecStream /\ WF_vars(WorkerStep) /\ WF_vars(ReadWake)

(***************************************************************************)
(* NewStreamDownload (package api): the request, the initial buffering     *)
(* loop and the start of the background worker.  The target is a small     *)
(* number of bytes here; its computation is modelled further below.        *)
(***************************************************************************)
\* the call has been made: nothing requested or buffered yet
NewStreamInit ==
    /\ InitPlayer
    /\ InitTest
    /\ queue = <<>>
    /\ history = <<>>
    /\ q0 = <<>>
    /\ completions = 0
    /\ buff = 0
    /\ written = 0
    /\ consumed = 0
    /\ bodyLeft \in 0 .. InitBuffered + MaxBody
    /\ downloadDone = FALSE
    /\ downloadErr = "nil"
    /\ cancelDownload = "chan"
    /\ cancelChan = "open"
    /\ ctxCancelled = FALSE
    /\ bodyClosed = FALSE
    /\ worker = IdleWorker
    /\ reader = IdleReader
    /\ closePc = "idle"
    /\ blockedAtClose = FALSE
    /\ data = <<>>
    /\ out = <<>>
    /\ bodyPos = 0
    /\ closeCalls = 0
    /\ ctxCancels = 0
    /\ chanCloses = 0
    /\ \E t \in 1 .. MaxTarget : ctor = [NoCtor EXCEPT !.pc = "request", !.target = t]
    /\ tgt = NoTarget
    /\ InitRest

\* what a step of NewStreamDownload leaves as it was
NewStreamFrame ==
    /\ UNCHANGED <<taskVars, queueVars, audioVars, playerVars, envVars, obsVars, testVars>>
    /\ UNCHANGED <<downloadDone, downloadErr, cancelDownload, cancelChan, ctxCancelled,
                   reader, closePc, consumed, blockedAtClose, out, closeVars, tgt>>
    /\ UNCHANGED restVars

\* stream.client.Do(stream.req): the request fails, or answers with a status
\* other than 200 (the body is read and closed), or answers 200
NewStream_Do ==
    /\ ctor.pc = "request"
    /\ \E h \in {"failed", "non200", "ok"} :
         /\ ctor' = IF h = "ok"
                    THEN [ctor EXCEPT !.pc = "loop", !.http = h]
                    ELSE [ctor EXCEPT !.pc = "returned", !.http = h, !.result = "error"]
         /\ bodyClosed' = (h = "non200")
    /\ UNCHANGED <<buff, data, written, bodyLeft, bodyPos, worker>>
    /\ NewStreamFrame

\* the initial loop: stream.buff.Len() >= initialBufferTarget
TargetReached == buff >= ctor.target

\* faulty variant: a fetch that ended is never a failure of the construction
InitialFillFailed_never(finished, len) == FALSE

\* the initial loop: readData reported the end with an empty buffer
InitialFillFailed(finished, len) == finished /\ len = 0

\* the initial loop, one round that calls readData (nothing else holds the
\* stream yet): the next chunk is read and written; on EOF or an error the
\* call fails with an empty buffer and otherwise leaves the loop
NewStream_readData ==
    /\ ctor.pc = "loop"
    /\ ~TargetReached
    /\ \E o \in NetOutcomes :
         LET p == IF o.n > 0 THEN WrittenSlice(Body_Read(o.n), o.n) ELSE <<>>
             finished == o.err # "nil"
             len == buff + Len(p)
         IN /\ data' = data \o p
            /\ buff' = len
            /\ written' = written + Len(p)
            /\ bodyLeft' = bodyLeft - o.n
            /\ bodyPos' = bodyPos + o.n
            /\ ctor' = IF InitialFillFailed(finished, len)
                       THEN [ctor EXCEPT !.pc = "returned", !.result = "error", !.end = o.err]
                       ELSE IF finished
                       THEN [ctor EXCEPT !.pc = "start", !.end = o.err]
                       ELSE ctor
    /\ UNCHANGED <<worker, bodyClosed>>
    /\ NewStreamFrame

\* the initial loop: the target is reached, break
NewStream_break ==
    /\ ctor.pc = "loop"
    /\ TargetReached
    /\ ctor' = [ctor EXCEPT !.pc = "start"]
    /\ UNCHANGED <<buff, data, written, bodyLeft, bodyPos, worker, bodyClosed>>
    /\ NewStreamFrame

\* go stream.bufferBackground(); return stream, nil
NewStream_start ==
    /\ ctor.pc = "start"
    /\ worker' = [IdleWorker EXCEPT !.pc = "loop"]
    /\ ctor' = [ctor EXCEPT !.pc = "returned", !.result = "stream"]
    /\ UNCHANGED <<buff, data, written, bodyLeft, bodyPos, bodyClosed>>
    /\ NewStreamFrame

NewStreamDownload ==
    \/ NewStream_Do
    \/ NewStream_readData
    \/ NewStream_break
    \/ NewStream_start

SpecNewStream == NewStreamInit /\ [][NewStreamDownload]_vars

\* the goroutine calling NewStreamDownload keeps running
SpecNewStreamFair == SpecNewStream /\ WF_vars(NewStreamDownload)

(***************************************************************************)
(* NewStreamDownload: the bitrate and the initial buffer target, computed  *)
(* from the Content-Length header, the duration and the configuration.     *)
(***************************************************************************)
\* stream.bitrate: length / duration when the header parsed and both are
\* positive, else the zero it was constructed with
Bitrate(parsed, length, duration) ==
    IF parsed /\ duration > 0 /\ length > 0 THEN length \div duration ELSE 0

\* initialBufferTarget before the final floor
ConfiguredTarget(kb, bitrate, bufS) ==
    IF kb > 0 THEN kb * KiB
    ELSE IF bitrate > 0
    THEN (IF bitrate * bufS < MinBufferBytes THEN MinBufferBytes ELSE bitrate * bufS)
    ELSE DefaultBufferBytes

\* initialBufferTarget: never below minBufferBytes
InitialBufferTarget(kb, bitrate, bufS) ==
    IF ConfiguredTarget(kb, bitrate, bufS) < MinBufferBytes
    THEN MinBufferBytes
    ELSE ConfiguredTarget(kb, bitrate, bufS)

\* the values the computation is tried with
TargetKBs == {0, 1, 32, 64, 1024}
TargetLengths == {-1, 0, 5, 100000, 1000000}
TargetDurations == {-1, 0, 10, 300}
TargetBufferingS == {1, 5, 30}

TargetInit ==
    /\ InitPlayer
    /\ InitNoStream
    /\ InitTest
    /\ queue = <<>>
    /\ history = <<>>
    /\ q0 = <<>>
    /\ completions = 0
    /\ ctor = NoCtor
    /\ InitRest
    /\ \E kb \in TargetKBs, parsed \in BOOLEAN, length \in TargetLengths,
          duration \in TargetDurations, bufS \in TargetBufferingS :
         tgt = [NoTarget EXCEPT !.pc = "header", !.kb = kb, !.parsed = parsed,
                                !.length = IF parsed THEN length ELSE 0,
                                !.duration = duration, !.bufS = bufS]

TargetFrame ==
    UNCHANGED <<taskVars, queueVars, audioVars, playerVars, envVars, obsVars, testVars,
                streamVars, closeVars, ctor, restVars>>

\* strconv.Atoi(Content-Length) and the bitrate
ComputeBitrate ==
    /\ tgt.pc = "header"
    /\ tgt' = [tgt EXCEPT !.pc = "target",
                          !.bitrate = Bitrate(tgt.parsed, tgt.length, tgt.duration)]
    /\ TargetFrame

\* the initial buffering logic up to the loop
ComputeTarget ==
    /\ tgt.pc = "target"
    /\ tgt' = [tgt EXCEPT !.pc = "done",
                          !.target = InitialBufferTarget(tgt.kb, tgt.bitrate, tgt.bufS)]
    /\ TargetFrame

TargetNext == ComputeBitrate \/ ComputeTarget

SpecTarget == TargetInit /\ [][TargetNext]_vars

(***************************************************************************)
(* Audio (package player): the calls on the device, one at a time, with    *)
(* two downloaded streams ready to be played.                              *)
(***************************************************************************)
DeviceInit ==
    /\ InitPlayer
    /\ InitExtra
    /\ InitNoStream
    /\ InitTest
    /\ queue = <<>>
    /\ history = <<>>
    /\ q0 = <<>>
    /\ completions = 0

\* what a call on the device leaves as it was
DeviceFrame ==
    UNCHANGED <<taskVars, queueVars, playerVars, added, testVars, streamVars, closeVars,
                ctorVars, loopVars, reportVars>>

\* the call is recorded, with the paused flags it found
DeviceCall(name, a) ==
    /\ lastCall' = name
    /\ arg' = a
    /\ before' = <<ctrlPaused, status.Paused>>

\* go a.flushStatus(): the callbacks get a snapshot
Flush ==
    /\ flushes < MaxFlushes
    /\ flushes' = flushes + 1

\* playSongFromReader with song s and a reader not used before: it plays the
\* song and flushes the status, or returns an error (recorded as "playErr")
\* when the format is unknown or the decode fails
Device_play(s, r, decodeOk) ==
    /\ readers[r] = "unused"
    /\ playSongFromReader(Meta(s, r), decodeOk)
    /\ IF decodeOk THEN Flush ELSE UNCHANGED flushes
    /\ DeviceCall(IF decodeOk THEN "play" ELSE "playErr", s)
    /\ UNCHANGED <<silent, volumeDB>>
    /\ DeviceFrame

\* Audio.StopMedia()
Device_StopMedia ==
    /\ StopMedia
    /\ Flush
    /\ DeviceCall("StopMedia", 0)
    /\ UNCHANGED <<silent, volumeDB>>
    /\ DeviceFrame

\* Audio.updateStatus(), called on the timer: the action becomes TimeUpdate
Device_updateStatus ==
    /\ status' = [status EXCEPT !.Action = "TimeUpdate"]
    /\ Flush
    /\ DeviceCall("updateStatus", 0)
    /\ UNCHANGED <<streamer, pos, ctrlPaused, readers, silent, volumeDB>>
    /\ DeviceFrame

\* faulty variant: PlayPause always pauses
PlayPause_state_paused == TRUE

\* PlayPause: state := !a.ctrl.Paused
PlayPause_state == ~ctrlPaused

\* Audio.PlayPause(): a.ctrl is never nil after newAudio
PlayPause ==
    /\ ctrlPaused' = PlayPause_state
    /\ status' = [status EXCEPT !.Paused = PlayPause_state, !.Action = "PlayPause"]
    /\ Flush
    /\ DeviceCall("PlayPause", 0)
    /\ UNCHANGED <<streamer, pos, readers, silent, volumeDB>>
    /\ DeviceFrame

\* Audio.Pause()
Pause ==
    /\ ctrlPaused' = TRUE
    /\ status' = [status EXCEPT !.Paused = TRUE, !.Action = "PlayPause"]
    /\ Flush
    /\ DeviceCall("Pause", 0)
    /\ UNCHANGED <<streamer, pos, readers, silent, volumeDB>>
    /\ DeviceFrame

\* Audio.Continue()
Continue ==
    /\ ctrlPaused' = FALSE
    /\ status' = [status EXCEPT !.Paused = FALSE, !.Action = "PlayPause"]
    /\ Flush
    /\ DeviceCall("Continue", 0)
    /\ UNCHANGED <<streamer, pos, readers, silent, volumeDB>>
    /\ DeviceFrame

\* faulty variant: Seek records the action, as the code it comments out would
Seek_status_action(ticks) == [status EXCEPT !.Action = "Seek"]

\* Seek: the status after the call
Seek_status(ticks) == status

\* Audio.Seek(ticks): a warning is logged
Seek(ticks) ==
    /\ status' = Seek_status(ticks)
    /\ DeviceCall("Seek", ticks)
    /\ UNCHANGED <<streamer, pos, ctrlPaused, readers, silent, volumeDB, flushes>>
    /\ DeviceFrame

\* volumeTodB(volume), in 1/VolumeSpan dB: volumeTodBA*volume + volumeTodBB
VolumeTodB(volume) ==
    (AudioMaxVolumedB - AudioMinVolumedB) * volume
        + (AudioMinVolumedB - AudioMinVolume) * VolumeSpan

\* faulty variant: the argument is stored as it is
SetVolume_status_raw(volume) == volume

\* SetVolume: the volume stored in the status
SetVolume_status(volume) ==
    IF VolumeTodB(volume) <= AudioMinVolumedB * VolumeSpan THEN AudioVolumeMin
    ELSE IF VolumeTodB(volume) >= AudioMaxVolumedB * VolumeSpan THEN AudioVolumeMax
    ELSE volume

\* Audio.SetVolume(volume)
SetVolume(volume) ==
    /\ silent' = (VolumeTodB(volume) <= AudioMinVolumedB * VolumeSpan)
    /\ volumeDB' = IF VolumeTodB(volume) <= AudioMinVolumedB * VolumeSpan
                   THEN AudioMinVolumedB * VolumeSpan
                   ELSE IF VolumeTodB(volume) >= AudioMaxVolumedB * VolumeSpan
                   THEN AudioMaxVolumedB * VolumeSpan
                   ELSE VolumeTodB(volume)
    /\ status' = [status EXCEPT !.Volume = SetVolume_status(volume), !.Action = "SetVolume"]
    /\ Flush
    /\ DeviceCall("SetVolume", volume)
    /\ UNCHANGED <<streamer, pos, ctrlPaused, readers>>
    /\ DeviceFrame

\* Audio.SetMute(muted): a.ctrl is never nil after newAudio; the action of
\* the status is left as it was
SetMute(muted) ==
    /\ silent' = muted
    /\ status' = [status EXCEPT !.Muted = muted]
    /\ Flush
    /\ DeviceCall("SetMute", IF muted THEN 1 ELSE 0)
    /\ UNCHANGED <<streamer, pos, ctrlPaused, readers, volumeDB>>
    /\ DeviceFrame

\* Audio.ToggleMute(): SetMute(!a.status.Muted)
ToggleMute ==
    /\ silent' = ~status.Muted
    /\ status' = [status EXCEPT !.Muted = ~status.Muted]
    /\ Flush
    /\ DeviceCall("ToggleMute", 0)
    /\ UNCHANGED <<streamer, pos, ctrlPaused, readers, volumeDB>>
    /\ DeviceFrame

\* the arguments the calls are tried with
VolumeArgs == {-50, -1, 0, 1, 99, 100, 101, 150}
SeekArgs == {-1, 0, 1}

DeviceNext ==
    \/ \E s \in Songs, r \in Readers, decodeOk \in BOOLEAN : Device_play(s, r, decodeOk)
    \/ Device_StopMedia
    \/ Device_updateStatus
    \/ PlayPause
    \/ Pause
    \/ Continue
    \/ \E t \in SeekArgs : Seek(t)
    \/ \E v \in VolumeArgs : SetVolume(v)
    \/ \E muted \in BOOLEAN : SetMute(muted)
    \/ ToggleMute

SpecDevice == DeviceInit /\ [][DeviceNext]_vars

(***************************************************************************)
(* Task (package task) with any loop: SetLoop, Start, Stop, the loop       *)
(* returning and run() clearing the running flag.                          *)
(***************************************************************************)
\* a Task{} with nothing set
TaskInit ==
    /\ InitPlayer
    /\ InitExtra
    /\ InitNoStream
    /\ InitTest
    /\ queue = <<>>
    /\ history = <<>>
    /\ q0 = <<>>
    /\ completions = 0

TaskFrame ==
    UNCHANGED <<loopPc, queueVars, audioVars, playerVars, envVars, testVars, streamVars,
                closeVars, ctorVars, devVars, reportVars>>

\* SetLoop(loop), called while the task is being set up: loop may be nil
Task_SetLoop(hasLoop) ==
    /\ ~running
    /\ inLoop + exiting = 0
    /\ loopSet' = hasLoop
    /\ initialized' = TRUE
    /\ lastCall' = "SetLoop"
    /\ UNCHANGED <<running, chanStop, inLoop, exiting, started, ret>>
    /\ TaskFrame

\* faulty variant: Start does not look at the running flag
Start_refused_unlessRunning == ~loopSet \/ ~initialized

\* Start: the three conditions under which it returns an error
Start_refused == running \/ ~loopSet \/ ~initialized

\* Task.Start()
Task_Start ==
    /\ lastCall' = "Start"
    /\ IF Start_refused
       THEN /\ ret' = "error"
            /\ UNCHANGED <<running, chanStop, inLoop, started>>
       ELSE /\ started < MaxStarts
            /\ chanStop' = IF chanStop = -1 THEN 0 ELSE chanStop
            /\ running' = TRUE
            /\ inLoop' = inLoop + 1
            /\ started' = started + 1
            /\ ret' = "nil"
    /\ UNCHANGED <<loopSet, initialized, exiting>>
    /\ TaskFrame

\* Task.Stop(): the send waits while the channel is full
Task_Stop ==
    /\ lastCall' = "Stop"
    /\ IF ~running
       THEN /\ ret' = "error"
            /\ UNCHANGED chanStop
       ELSE /\ chanStop < ChanStopCap
            /\ chanStop' = chanStop + 1
            /\ ret' = "nil"
    /\ UNCHANGED <<running, loopSet, initialized, inLoop, exiting, started>>
    /\ TaskFrame

\* the loop takes the stop signal from StopChan() and returns
Task_loopStopped ==
    /\ inLoop > 0
    /\ chanStop > 0
    /\ chanStop' = chanStop - 1
    /\ inLoop' = inLoop - 1
    /\ exiting' = exiting + 1
    /\ lastCall' = "loop"
    /\ UNCHANGED <<running, loopSet, initialized, started, ret>>
    /\ TaskFrame

\* the loop returns by itself
Task_loopReturned ==
    /\ inLoop > 0
    /\ inLoop' = inLoop - 1
    /\ exiting' = exiting + 1
    /\ lastCall' = "loop"
    /\ UNCHANGED <<running, chanStop, loopSet, initialized, started, ret>>
    /\ TaskFrame

\* run(), after t.loop(): t.running = false
Task_runExit ==
    /\ exiting > 0
    /\ running' = FALSE
    /\ exiting' = exiting - 1
    /\ lastCall' = "run"
    /\ UNCHANGED <<chanStop, loopSet, initialized, inLoop, started, ret>>
    /\ TaskFrame

TaskNext ==
    \/ \E hasLoop \in BOOLEAN : Task_SetLoop(hasLoop)
    \/ Task_Start
    \/ Task_Stop
    \/ Task_loopStopped
    \/ Task_loopReturned
    \/ Task_runExit

SpecTask == TaskInit /\ [][TaskNext]_vars

(***************************************************************************)
(* Properties.                                                             *)
(***************************************************************************)
\* invocations between setting downloadingSong and resetting it
InFlight == {p \in Procs : inv[p].pc \in {"stream", "retry", "reset"}}

\* steps of the loop, told by the channel they receive from
StopHandled == chanStop' < chanStop
CompleteHandled == songComplete' < songComplete
DownloadedHandled == Len(songDownloaded') < Len(songDownloaded)

\* C1: at most one downloadSong invocation is between setting the in-flight
\* flag and resetting it (never two outstanding api.Stream calls).
C1_AtMostOneDownload == Cardinality(InFlight) <= 1

\* C2: no Player.Reorder call changes the track at queue index 0 while the
\* device state is Playing.
C2_HeadNotReorderedWhilePlaying ==
    [][(reorder.pc = "swap" /\ reorder'.pc = "idle" /\ status.State = "Playing"
        /\ queue # <<>>)
       => Head(queue') = Head(queue)]_vars

\* C3: a Download-complete event for the queue head that arrives when no
\* pipeline is active and no Track-complete is pending (so that nothing else
\* would hand it to the device) is played (or fails to decode), not stashed.
C3_HeadDownloadIsPlayed ==
    [][(DownloadedHandled /\ streamer = NoMeta /\ songComplete = 0 /\ nextSong = NoMeta
        /\ (\A p \in Procs : inv[p].pc = "idle")
        /\ queue # <<>> /\ Head(songDownloaded).song = Head(queue))
       => \/ streamer' = Head(songDownloaded)
          \/ readers'[Head(songDownloaded).reader] = "closed"]_vars

\* the head of the queue has moved to the front of history
HeadMoved == queue # <<>> => queue' = Tail(queue) /\ history' = <<Head(queue)>> \o history
\* the stashed track is handed to the device (which plays it or fails to decode it)
StashHanded ==
    /\ nextSong' = NoMeta
    /\ streamer' = nextSong \/ readers'[nextSong.reader] = "closed"
\* the loop goroutine has started a download of the new index-0 entry
HeadDownloadStarted == inv'[LoopProc].pc = "set" /\ inv'[LoopProc].song = Head(queue')

C5_StopExitsLoop ==
    [][StopHandled => status'.State = "Stopped" /\ loopPc' # "select"]_vars

\* C6: api.Stream is called a second time exactly when the first call failed
\* with the transient signature, never a third time; a failed invocation
\* registers no send and returns without emitting Download-complete.
C6_RetryShape ==
    \A p \in Procs :
        /\ inv[p].calls <= 2
        /\ inv[p].calls = 2 => inv[p].firstErr = "transient"
        /\ (inv[p].pc \in {"reset", "send"} /\ inv[p].firstErr = "transient") => inv[p].calls = 2
        /\ (inv[p].pc \in {"reset", "send"} /\ inv[p].firstErr = "other")
              => inv[p].calls = 1 /\ ~inv[p].ok
        /\ inv[p].pc = "send" => inv[p].ok
C6_FailedReturnsIdle ==
    \A p \in Procs :
        (inv[p].pc = "reset" /\ ~inv[p].ok /\ inv'[p] # inv[p])
            => inv'[p] = IdleInv /\ songDownloaded' = songDownloaded
C6_RetryExactlyOnce == []C6_RetryShape /\ [][C6_FailedReturnsIdle]_vars

\* C6 witness: an invocation that has made its second api.Stream call and failed
C6_Witness == \E p \in Procs : inv[p].pc = "reset" /\ inv[p].calls = 2 /\ ~inv[p].ok

\* a step of a downloadSong invocation
DownloadStep ==
    \E p \in Procs : inv[p].pc \in {"set", "stream", "retry", "reset", "send"} /\ inv'[p] # inv[p]
\* an invocation whose download has failed returns
FailedDownloadReturns ==
    \E p \in Procs : inv[p].pc = "reset" /\ ~inv[p].ok /\ inv'[p] = IdleInv

\* C7: a failed download leaves the queue as it was (downloadSong never
\* changes queue or history) and, when it returns, the device consistent: it
\* does not show Playing with no active pipeline (and no Track-complete event
\* pending that would start another download).
C7_FailedDownloadLeavesConsistent ==
    [][/\ DownloadStep => UNCHANGED queueVars
       /\ (FailedDownloadReturns /\ songComplete = 0)
            => ~(status'.State = "Playing" /\ streamer' = NoMeta)]_vars

\* C8: Player.Next() with fewer than two queued tracks changes nothing and
\* triggers no download.
C8_NextNoopBelowTwo ==
    [][(lastCall' = "Next" /\ Len(queue) < 2)
       => UNCHANGED <<taskVars, queueVars, audioVars, playerVars, envVars>>]_vars

\* C8 witness: Next() was refused while the only queued track is playing
C8_Witness ==
    /\ lastCall = "Next"
    /\ Len(queue) = 1
    /\ status.State = "Playing"
    /\ streamer # NoMeta

\* C9: handling the stop request closes the reader of a stashed next song
\* and the reader held by an in-flight download.
C9_StopClosesStreams ==
    [][StopHandled =>
        /\ nextSong # NoMeta => readers'[nextSong.reader] = "closed"
        /\ \A p \in Procs : inv[p].reader # 0 => readers'[inv[p].reader] = "closed"]_vars

\* C10: after k songComplete calls on queue [s1..sn] with empty history the
\* queue is [s(k+1)..sn] and GetHistory(m) is the first min(m,k) of [sk..s1].
C10_SongCompleteMovesHead ==
    /\ queue = SubSeq(q0, completions + 1, Len(q0))
    /\ \A m \in 0 .. MaxQueueLen + 1 :
         Queue_GetHistory(history, m)
            = SubSeq(Reverse(SubSeq(q0, 1, completions)), 1, Min(m, completions))

\* C10 witness: two completions of a queue that starts with two different tracks
C10_Witness == completions = 2 /\ Len(q0) = 3 /\ q0[1] # q0[2]

\* the calls of the test so far are all op
RunOf(op) == \A i \in 1 .. Len(run) : run[i] = op

\* C11: songComplete() on a non-empty queue immediately followed by
\* playLastSong() restores the queue and the history to what they were.
C11_CompleteThenLastRoundTrip ==
    (lastCall = "none" /\ run = <<"songComplete", "playLastSong">>)
        => queue = q0 /\ history = h0

\* C11 witness: the round trip made on a two-track queue with a history
C11_Witness ==
    /\ lastCall = "none"
    /\ run = <<"songComplete", "playLastSong">>
    /\ Len(q0) = 2
    /\ h0 # <<>>

\* k playLastSong calls move the min(k, n) most recent of the n history
\* entries to the queue head, most recent first, and nothing more
C12_LastSongUnderflow ==
    (lastCall = "none" /\ RunOf("playLastSong")) =>
        LET k == Min(Len(run), Len(h0))
        IN /\ queue = Reverse(SubSeq(h0, 1, k)) \o q0
           /\ history = SubSeq(h0, k + 1, Len(h0))
\* Player.Previous() with an empty history changes nothing, starts no download
C12_PreviousNoopOnEmptyHistory ==
    (lastCall' = "Previous" /\ history = <<>>)
        => UNCHANGED <<taskVars, queueVars, audioVars, playerVars, envVars>>

\* C12: playLastSong() with an empty history changes nothing; called more
\* often than there are history entries it moves each entry to the queue head
\* once, most recent first, and then has no effect. Player.Previous() with an
\* empty history changes nothing and triggers no download.
C12_PlayLastSongUnderflow ==
    []C12_LastSongUnderflow /\ [][C12_PreviousNoopOnEmptyHistory]_vars

\* C12 witness: playLastSong called twice on a history of one entry, then
\* Player.Previous() on the history that is now empty
C12_Witness ==
    /\ lastCall = "Previous"
    /\ run = <<"playLastSong", "playLastSong">>
    /\ Len(h0) = 1
    /\ history = <<>>
    /\ queue = h0 \o q0

\* C13: Player.Reorder(0, direction) never changes the queue order, for
\* either direction, any queue contents and any device state.
C13_ReorderZeroNeverChanges ==
    [][(reorder.pc = "swap" /\ reorder'.pc = "idle" /\ reorder.index = 0)
       => queue' = queue]_vars

\* q2 is q with the entries at 0-based indexes a and b exchanged
Exchanged(q, q2, a, b) ==
    /\ Len(q2) = Len(q)
    /\ \A j \in 1 .. Len(q) :
         q2[j] = IF j = a + 1 THEN q[b + 1] ELSE IF j = b + 1 THEN q[a + 1] ELSE q[j]

\* C14: Queue.Reorder(i, down) on a queue of length n swaps entries i and i-1
\* if down and 1 <= i < n, swaps entries i and i+1 if not down and
\* 0 <= i < n-1, and otherwise leaves the queue unchanged; it returns true
\* exactly when it swapped.
C14_ReorderSwapsNeighbour ==
    [][lastOp'.op = "Reorder" =>
        LET i == lastOp'.index
            n == Len(queue)
        IN IF lastOp'.down /\ 1 <= i /\ i < n
           THEN Exchanged(queue, queue', i, i - 1) /\ lastOp'.ret
           ELSE IF ~lastOp'.down /\ 0 <= i /\ i < n - 1
           THEN Exchanged(queue, queue', i, i + 1) /\ lastOp'.ret
           ELSE queue' = queue /\ ~lastOp'.ret]_vars

\* C14 witness: the head of a three-track queue was moved later
C14_Witness ==
    /\ lastOp.op = "Reorder"
    /\ lastOp.index = 0
    /\ ~lastOp.down
    /\ lastOp.ret
    /\ Len(queue) = 3
    /\ queue[1] # queue[2]

\* C15: PlayNext(list) on a non-empty queue [h, r1..rk] yields
\* [h] ++ list ++ [r1..rk]; on an empty queue it yields list, as AddSongs.
C15_PlayNextAfterHead ==
    [][lastOp'.op = "PlayNext" =>
        LET list == lastOp'.list
        IN IF queue = <<>>
           THEN queue' = list /\ queue' = Queue_AddSongs(queue, list)
           ELSE /\ Len(queue') = Len(queue) + Len(list)
                /\ queue'[1] = queue[1]
                /\ \A j \in 1 .. Len(list) : queue'[1 + j] = list[j]
                /\ \A j \in 2 .. Len(queue) : queue'[Len(list) + j] = queue[j]]_vars

\* C15 witness: two tracks were inserted after the head, the rest kept
C15_Witness ==
    /\ lastOp.op = "PlayNext"
    /\ Len(lastOp.list) = 2
    /\ lastOp.list[1] # lastOp.list[2]
    /\ Len(queue) = 4
    /\ queue[1] # queue[2]

\* the queue is as long as the songs added less the valid removals
C16_LengthIsNet == Len(queue) = nAdded - nRemoved
\* AddSongs appends in order; an empty list, an out-of-range RemoveSong and
\* every Reorder leave the length unchanged
C16_EditSteps ==
    /\ lastOp'.op = "AddSongs" => queue' = queue \o lastOp'.list
    /\ (lastOp'.op = "RemoveSong" /\ (lastOp'.index < 0 \/ lastOp'.index >= Len(queue)))
         => queue' = queue
    /\ lastOp'.op = "Reorder" => Len(queue') = Len(queue)

\* C16: after every sequence of AddSongs, RemoveSong and Reorder calls the
\* queue length is the number of songs added minus the number of RemoveSong
\* calls with a valid index; AddSongs appends its list in order.
C16_QueueLengthIsNetCount == []C16_LengthIsNet /\ [][C16_EditSteps]_vars

\* C16 witness: songs added, one removed, then a RemoveSong past the end
C16_Witness ==
    /\ lastOp.op = "RemoveSong"
    /\ lastOp.index >= Len(queue)
    /\ nRemoved >= 1
    /\ nAdded >= 3
    /\ Len(queue) = 2

\* how often track x occurs in q
Count(q, x) == Cardinality({i \in 1 .. Len(q) : q[i] = x})

\* C17: with shuffle enabled GetQueue is a permutation of the pre-shuffle
\* entries (same length, same tracks as often, none dropped); disabling it
\* with no intervening mutation restores exactly the pre-shuffle order.
C17_ShufflePermutesAndRestores ==
    /\ Len(queue) = Len(q0)
    /\ \A x \in 1 .. QSongs : Count(queue, x) = Count(q0, x)
    /\ ~shuffle => queue = q0

\* C17 witness: a queue of three different tracks served in another order
C17_Witness ==
    /\ shuffle
    /\ Len(q0) = 3
    /\ q0[1] # q0[2] /\ q0[2] # q0[3] /\ q0[1] # q0[3]
    /\ queue # q0

\* a Read call returns in this step
ReadReturns == reader'.pc = "returned" /\ reader' # reader

\* Read returns zero bytes only once the download is done
C18_NoEmptyReturn == (reader.pc = "returned" /\ reader.n = 0) => downloadDone
\* a waiting Read returns once there is data or the download is done
C18_NoLostWakeup ==
    (reader.pc = "waiting" /\ (buff > 0 \/ downloadDone)) ~> (reader.pc = "returned")

\* C18: Read with a non-empty slice never returns zero bytes while the
\* download is not done: on an empty buffer it waits, and it is woken and
\* returns once the worker has written data or set the terminal state.
C18_ReadWaitsForData == []C18_NoEmptyReturn /\ C18_NoLostWakeup

\* C18 witness: a Read that waited returned data while the download went on
C18_Witness ==
    /\ reader.pc = "returned"
    /\ reader.waited
    /\ reader.n > 0
    /\ ~downloadDone

\* C19: a Read that was waiting on an empty buffer when Close() was called
\* and returns no data does not return the error of the cancelled fetch (it
\* returns io.ErrClosedPipe, or the end or failure the download had met).
C19_BlockedReadGetsClosedError ==
    (blockedAtClose /\ reader.pc = "returned" /\ reader.n = 0)
        => reader.err \in {"closed", "EOF", "fetch"}

\* the bytes read never exceed the bytes written
C20_ReadCursorBehindWrite == consumed <= written
\* done is never unset and the stored error never changes; with done set
\* and the buffer empty a Read returns zero bytes and the stored error
C20_TerminalSteps ==
    /\ downloadDone => downloadDone' /\ downloadErr' = downloadErr
    /\ (downloadDone /\ buff = 0 /\ ReadReturns)
         => reader'.n = 0 /\ reader'.err = downloadErr

\* C20: once downloadDone is set it is never unset and downloadErr never
\* changes; once the buffer is also empty every Read returns zero bytes with
\* that error; the bytes read never exceed the bytes written.
C20_TerminalIsSticky == []C20_ReadCursorBehindWrite /\ [][C20_TerminalSteps]_vars

\* C20 witness: the whole body was read, then a Read returned the stored EOF
C20_Witness ==
    /\ downloadDone
    /\ downloadErr = "EOF"
    /\ buff = 0
    /\ reader.pc = "returned"
    /\ reader.n = 0
    /\ reader.err = "EOF"
    /\ consumed = written
    /\ written > InitBuffered

\* the bytes returned so far are the first bytes of the source, in order
C21_Prefix == \A i \in 1 .. Len(out) : out[i] = i
\* the buffer holds the bytes that follow, in order, up to the last one read
\* from the body and written
C21_BufferFollows ==
    /\ buff = Len(data)
    /\ \A i \in 1 .. Len(data) : data[i] = Len(out) + i
\* a Read that returns the clean end has been preceded by all source bytes
C21_AllBeforeEnd ==
    (reader.pc = "returned" /\ reader.n = 0 /\ reader.err = "EOF")
        => (bodyLeft = 0 /\ Len(out) = bodyPos)

\* C21: the bytes the Read calls return, concatenated, are the source bytes
\* in order (none lost, duplicated or reordered) for any split of request
\* sizes and any interleaving with the worker, and all of them have been
\* returned before a Read returns the clean end of the stream.
C21_ReadsYieldSource == C21_Prefix /\ C21_BufferFollows /\ C21_AllBeforeEnd

\* C21 witness: the longest source read to its clean end, the last Read
\* having waited for the worker
C21_Witness ==
    /\ reader.pc = "returned"
    /\ reader.n = 0
    /\ reader.err = "EOF"
    /\ Len(out) = InitBuffered + MaxBody
    /\ reader.want = 1
    /\ reader.waited

\* C22: a second Close() after the first has returned, with the worker still
\* running or finished, does not fault: no send on or close of a closed
\* channel, the cancel channel is closed at most once and the request context
\* is cancelled at most once.
C22_SecondCloseIsSafe ==
    /\ closePc # "panic"
    /\ chanCloses <= 1
    /\ ctxCancels <= 1

\* C22 witness: the second Close has returned while the worker is still in
\* its network read
C22_Witness ==
    /\ closeCalls = 2
    /\ closePc = "done"
    /\ worker.pc = "net"
    /\ chanCloses = 1
    /\ ctxCancels = 1

\* NewStreamDownload returns a stream exactly when the request was answered
\* with 200 and at least one byte was buffered, and then the worker runs
C23_StreamOnlyWithData ==
    ctor.pc = "returned" =>
        /\ ctor.result = "stream" <=> (ctor.http = "ok" /\ buff > 0)
        /\ ctor.result = "error" <=> ~(ctor.http = "ok" /\ buff > 0)
        /\ ctor.result = "stream" => worker.pc = "loop"
        /\ ctor.result = "error" => worker = IdleWorker
\* while it buffers, every byte of the body handed out is in the buffer
C23_FillKeepsBytes == ctor.pc \in {"loop", "start"} => (buff = bodyPos /\ buff = Len(data))

\* C23: NewStreamDownload returns an error, and no stream, on a failed
\* request, a status other than 200, or a body that ends (EOF or error)
\* before a byte is buffered; it returns a stream when the body ends after
\* some bytes, also below the target; and the initial loop always ends.
C23_NoStreamWithoutData ==
    /\ []C23_StreamOnlyWithData
    /\ []C23_FillKeepsBytes
    /\ <>(ctor.pc = "returned")

\* C23 witness: the body ended below the target and the stream was returned
C23_Witness ==
    /\ ctor.pc = "returned"
    /\ ctor.result = "stream"
    /\ ctor.end = "EOF"
    /\ buff > 0
    /\ buff < ctor.target

\* the target as specified for the inputs of tgt
C24_Specified ==
    IF tgt.kb > 0 THEN tgt.kb * KiB
    ELSE IF tgt.parsed /\ tgt.length > 0 /\ tgt.duration > 0
            /\ tgt.length \div tgt.duration > 0
    THEN (IF (tgt.length \div tgt.duration) * tgt.bufS > MinBufferBytes
          THEN (tgt.length \div tgt.duration) * tgt.bufS ELSE MinBufferBytes)
    ELSE DefaultBufferBytes

\* C24: the initial target is InitialBufferKB x 1024 whenever that is
\* configured; else max(64 KiB, (contentLength div duration) x HttpBufferingS)
\* when the bitrate is positive; else 512 KiB.
C24_TargetAsSpecified == tgt.pc = "done" => tgt.target = C24_Specified

\* the stored volume is within [0,100]
C25_VolumeInRange == status.Volume \in AudioVolumeMin .. AudioVolumeMax
\* what one SetVolume call stores
C25_SetVolumeStores ==
    lastCall' = "SetVolume" =>
        /\ arg' > 100 => status'.Volume = 100
        /\ arg' <= 0 => (status'.Volume = 0 /\ silent')
        /\ arg' \in 1 .. 100 => status'.Volume = arg'

\* C25: after any SetVolume calls the stored volume is within [0,100]: an
\* argument above 100 stores 100, one at or below 0 stores 0 and sets the
\* silent flag, one in range is stored unchanged.
C25_VolumeClamped == []C25_VolumeInRange /\ [][C25_SetVolumeStores]_vars

\* C25 witness: SetVolume(150) stored 100
C25_Witness == lastCall = "SetVolume" /\ arg = 150 /\ status.Volume = 100 /\ ~silent

\* the pipeline's control and the status agree on the paused flag
C26_FlagsAgree == ctrlPaused = status.Paused
\* one PlayPause flips both flags; a second one right after it restores them
C26_Flips ==
    lastCall' = "PlayPause" =>
        /\ ctrlPaused' = ~ctrlPaused
        /\ status'.Paused = ~status.Paused
        /\ lastCall = "PlayPause" => (ctrlPaused' = before[1] /\ status'.Paused = before[2])

\* C26: PlayPause flips both the pipeline's paused control and the status
\* paused flag, from any device state, and two calls in a row restore them.
C26_PlayPauseInvolution == []C26_FlagsAgree /\ [][C26_Flips]_vars

\* C26 witness: two PlayPause calls in a row while a song plays
C26_Witness ==
    /\ lastCall = "PlayPause"
    /\ status.State = "Playing"
    /\ before = <<TRUE, TRUE>>
    /\ ~ctrlPaused
    /\ ~status.Paused

\* C27: Pause() on a paused device and Continue() on a device that is not
\* paused leave the status as it was, last action included, and emit no
\* status snapshot.
C27_PauseContinueNoop ==
    [][((lastCall' = "Pause" /\ ctrlPaused /\ status.Paused)
         \/ (lastCall' = "Continue" /\ ~ctrlPaused /\ ~status.Paused))
        => (status' = status /\ flushes' = flushes)]_vars

C29_OneInstance ==
    /\ inLoop + exiting <= 1
    /\ inLoop + exiting > 0 => running
\* what Start and Stop do and return
C29_StartStop ==
    /\ (lastCall' = "Start" /\ (running \/ ~loopSet \/ ~initialized))
         => /\ ret' = "error"
            /\ UNCHANGED <<running, chanStop, loopSet, initialized, inLoop, exiting>>
    /\ (lastCall' = "Start" /\ ~(running \/ ~loopSet \/ ~initialized))
         => /\ ret' = "nil"
            /\ running'
            /\ inLoop' = inLoop + 1
            /\ exiting' = exiting
    /\ (lastCall' = "Stop" /\ ~running)
         => /\ ret' = "error"
            /\ UNCHANGED <<running, chanStop, inLoop, exiting>>

\* C29: Start returns an error and changes nothing when the task is running,
\* has no loop or is not initialized, and otherwise marks it running and
\* starts one loop instance; Stop returns an error and sends nothing when the
\* task is not running; two loop instances never run at the same time.
C29_StartStopGuarded == []C29_OneInstance /\ [][C29_StartStop]_vars

\* C29 witness: Start was refused on a running task whose loop, started
\* after an earlier one had ended, is still running
C29_Witness ==
    /\ lastCall = "Start"
    /\ ret = "error"
    /\ running
    /\ inLoop = 1
    /\ started = 2

\* C30: whenever the device state is Playing, the track in the device status
\* is the track at queue index 0.
C30_PlayingIsHead ==
    status.State = "Playing" => (queue # <<>> /\ status.Song = Head(queue))

\* the ticker case has called downloadSong(1) and it has passed its check
TickStartsDownload == lastCall' = "tick" /\ inv'[LoopProc].pc = "set"

\* C31: a tick starts a prefetch, of the entry at queue index 1, only when the
\* device is Playing a track with under 5 seconds left, no download is in
\* flight, no prefetched track is stashed and the queue holds two tracks.
C31_TickPrefetchGuarded ==
    [][TickStartsDownload =>
        /\ status.State = "Playing"
        /\ status.Song # 0
        /\ Duration(status.Song) - getPastTicks < PrefetchRemainingS
        /\ InFlight = {}
        /\ nextSong = NoMeta
        /\ Len(queue) >= 2
        /\ inv'[LoopProc].song = queue[2]]_vars

\* C32: when api.Stream has succeeded, the invocation goes on to send the
\* Download-complete event with the reader, whatever the album and artist
\* lookups return.
C32_DownloadCompleteSent ==
    [][\A p \in Procs :
          (inv[p].pc = "reset" /\ inv[p].ok /\ inv'[p].pc # "reset")
              => (inv'[p].pc = "send" /\ inv'[p].reader = inv[p].reader)]_vars

\* reader r is held by a running invocation, a pending Download-complete
\* event, the stash or the active pipeline
ReaderHeld(r) ==
    \/ \E p \in Procs : inv[p].reader = r
    \/ \E i \in 1..Len(songDownloaded) : songDownloaded[i].reader = r
    \/ nextSong.reader = r
    \/ streamer.reader = r

\* C33: every reader api.Stream has returned is handed to the device or
\* closed: no reader is left open while nothing holds it any more (neither a
\* running invocation, nor a pending Download-complete event, nor the stash,
\* nor the active pipeline).
C33_NoReaderLeaked == \A r \in Readers : readers[r] = "open" => ReaderHeld(r)
\* the worker is inside readData (the cancel check, the network read or the
\* write of what was read)
WorkerReading == worker.pc \in {"readData", "net", "write"}

\* the worker stands at the top of its loop or at its select
WorkerAtLoop == worker.pc \in {"loop", "select"}

\* C34: the fill worker is inside readData only while the buffered length is
\* below the limit; while the buffer is at or above the limit nothing is
\* appended to it; and a worker at its loop with the buffer below the limit
\* goes on to read again unless the download has been marked done.
C34_Backpressure ==
    /\ [](WorkerReading => buff < BufferLimit)
    /\ [][buff >= BufferLimit => buff' <= buff]_vars
    /\ ((WorkerAtLoop /\ buff < BufferLimit) ~> (worker.pc = "readData" \/ downloadDone))

\* the consumer has taken a buffer that stood at the limit in one Read, and
\* the worker, which skipped its reads meanwhile, is reading again
C34_Witness ==
    /\ reader.pc = "returned"
    /\ reader.n = BufferLimit
    /\ buff < BufferLimit
    /\ worker.pc = "readData"

\* C35: a playSongFromReader call that returns an error (unknown format or
\* failed decode) closes the reader it was given and leaves the active
\* pipeline, both paused flags and the status as they were, and flushes no
\* status.
C35_DecodeFailureLeavesDevice ==
    [][lastCall' = "playErr"
       => /\ \E r \in Readers : /\ readers[r] = "unused"
                                /\ readers' = [readers EXCEPT ![r] = "closed"]
          /\ UNCHANGED <<status, streamer, pos, ctrlPaused, flushes>>]_vars

\* a track is playing and paused when a second reader fails to decode: the
\* pipeline is still the first one, paused, and the failed reader is closed
C35_Witness ==
    /\ lastCall = "playErr"
    /\ streamer # NoMeta
    /\ status.State = "Playing"
    /\ ctrlPaused
    /\ readers[streamer.reader] # "closed"
    /\ \E r \in Readers : readers[r] = "closed"

(***************************************************************************)
(* Status flushes and Player.audioCallback, the playback reports: the loop *)
(* goroutine (LoopProc) flushes in updateStatus and playSongFromReader,    *)
(* user calls flush in a goroutine of their own (go a.flushStatus()).      *)
(***************************************************************************)
\* time.Millisecond*9500
ReportThrottleMs == 9500
\* time.NewTicker(time.Second), in milliseconds
TickMs == 1000
\* the clock is followed up to here
MaxNow == 10500

ReportInit ==
    /\ InitPlayer
    /\ InitExtra
    /\ InitNoStream
    /\ InitTest
    /\ queue = <<>>
    /\ history = <<>>
    /\ q0 = <<>>
    /\ completions = 0

\* what a step of a flush leaves as it was
ReportFrame ==
    UNCHANGED <<taskVars, queueVars, playerVars, envVars, testVars, streamVars, closeVars,
                ctorVars, devVars, loopVars>>

\* time passes: a ticker period or a throttle period
ClockAdvance(d) ==
    /\ now + d <= MaxNow
    /\ now' = now + d
    /\ lastCall' = "advance"
    /\ UNCHANGED <<audioVars, lastApiReport, cb, lastTimeUpdate, dispatched>>
    /\ ReportFrame

\* a flushStatus call starts in goroutine p
FlushStart(p) == [cb EXCEPT ![p] = [IdleCb EXCEPT !.pc = "snapshot"]]

\* the loop's ticker case: p.Audio.updateStatus() sets the action and flushes
Report_updateStatus ==
    /\ cb[LoopProc].pc = "idle"
    /\ status' = [status EXCEPT !.Action = "TimeUpdate"]
    /\ cb' = FlushStart(LoopProc)
    /\ lastCall' = "updateStatus"
    /\ UNCHANGED <<streamer, pos, ctrlPaused, now, lastApiReport, lastTimeUpdate, dispatched>>
    /\ ReportFrame

\* the loop plays a downloaded song s: playSongFromReader ends with
\* a.flushStatus()
Report_play(s) ==
    /\ cb[LoopProc].pc = "idle"
    /\ status' = [status EXCEPT !.Paused = FALSE, !.Song = s, !.State = "Playing",
                                !.Action = "Play"]
    /\ ctrlPaused' = FALSE
    /\ cb' = FlushStart(LoopProc)
    /\ lastCall' = "play"
    /\ UNCHANGED <<streamer, pos, now, lastApiReport, lastTimeUpdate, dispatched>>
    /\ ReportFrame

\* a user's Pause(): the status is set, then go a.flushStatus() in goroutine p
Report_Pause(p) ==
    /\ cb[p].pc = "idle"
    /\ status' = [status EXCEPT !.Paused = TRUE, !.Action = "PlayPause"]
    /\ ctrlPaused' = TRUE
    /\ cb' = FlushStart(p)
    /\ lastCall' = "Pause"
    /\ UNCHANGED <<streamer, pos, now, lastApiReport, lastTimeUpdate, dispatched>>
    /\ ReportFrame

\* a user's StopMedia(): the status is set, then go a.flushStatus() in goroutine p
Report_StopMedia(p) ==
    /\ cb[p].pc = "idle"
    /\ status' = StopMedia_status
    /\ ctrlPaused' = FALSE
    /\ cb' = FlushStart(p)
    /\ lastCall' = "StopMedia"
    /\ UNCHANGED <<streamer, pos, now, lastApiReport, lastTimeUpdate, dispatched>>
    /\ ReportFrame

\* flushStatus: status := a.status under the speaker lock
Flush_snapshot(p) ==
    /\ cb[p].pc = "snapshot"
    /\ cb' = [cb EXCEPT ![p] = [@ EXCEPT !.pc = "read", !.action = status.Action,
                                         !.state = status.State]]
    /\ lastCall' = "flush"
    /\ UNCHANGED <<audioVars, now, lastApiReport, lastTimeUpdate, dispatched>>
    /\ ReportFrame

\* audioCallback: lastTime := p.lastApiReport under the read lock
Callback_read(p) ==
    /\ cb[p].pc = "read"
    /\ cb' = [cb EXCEPT ![p] = [@ EXCEPT !.pc = "check", !.lastTime = lastApiReport]]
    /\ lastCall' = "flush"
    /\ UNCHANGED <<audioVars, now, lastApiReport, lastTimeUpdate, dispatched>>
    /\ ReportFrame

\* time.Now().Sub(lastTime) < 9500 ms; the zero time is long ago
Throttled(lastTime) == lastTime # ZeroTime /\ now - lastTime < ReportThrottleMs

\* audioCallback returns early: a time update within the throttle period, or
\* a time update of a stopped player
Callback_skips(c) ==
    \/ Throttled(c.lastTime) /\ c.action = "TimeUpdate"
    \/ c.state = "Stopped" /\ c.action = "TimeUpdate"

\* audioCallback: the two early returns
Callback_check(p) ==
    /\ cb[p].pc = "check"
    /\ cb' = [cb EXCEPT ![p] = IF Callback_skips(cb[p]) THEN IdleCb
                                 ELSE [@ EXCEPT !.pc = "set"]]
    /\ lastCall' = "flush"
    /\ UNCHANGED <<audioVars, now, lastApiReport, lastTimeUpdate, dispatched>>
    /\ ReportFrame

\* audioCallback: p.lastApiReport = time.Now() under the lock
Callback_set(p) ==
    /\ cb[p].pc = "set"
    /\ lastApiReport' = now
    /\ cb' = [cb EXCEPT ![p] = [@ EXCEPT !.pc = "dispatch"]]
    /\ lastCall' = "flush"
    /\ UNCHANGED <<audioVars, now, lastTimeUpdate, dispatched>>
    /\ ReportFrame

\* audioCallback: the report is built and handed to go f()
Callback_dispatch(p) ==
    /\ cb[p].pc = "dispatch"
    /\ dispatched' = cb[p].action
    /\ lastTimeUpdate' = IF cb[p].action = "TimeUpdate" THEN now ELSE lastTimeUpdate
    /\ cb' = [cb EXCEPT ![p] = IdleCb]
    /\ lastCall' = "report"
    /\ UNCHANGED <<audioVars, now, lastApiReport>>
    /\ ReportFrame

ReportNext ==
    \/ \E d \in {TickMs, ReportThrottleMs} : ClockAdvance(d)
    \/ Report_updateStatus
    \/ \E s \in Songs : Report_play(s)
    \/ \E p \in Goroutines : Report_Pause(p)
    \/ \E p \in Goroutines : Report_StopMedia(p)
    \/ \E p \in Procs : Flush_snapshot(p)
    \/ \E p \in Procs : Callback_read(p)
    \/ \E p \in Procs : Callback_check(p)
    \/ \E p \in Procs : Callback_set(p)
    \/ \E p \in Procs : Callback_dispatch(p)

SpecReport == ReportInit /\ [][ReportNext]_vars

\* goroutine p dispatches a time-update report in this step
TimeUpdateDispatched(p) ==
    cb[p].pc = "dispatch" /\ cb[p].action = "TimeUpdate" /\ cb'[p].pc = "idle"

\* C36: a time-update report is dispatched only at least 9.5 seconds after
\* the time-update report before it, and never with a status snapshot whose
\* state is Stopped.
C36_TimeUpdatesThrottled ==
    [][\A p \in Procs :
         TimeUpdateDispatched(p)
         => /\ cb[p].state # "Stopped"
            /\ lastTimeUpdate = ZeroTime \/ now - lastTimeUpdate >= ReportThrottleMs]_vars

\* C37: a loop started by Start() observes no stop signal sent before that
\* Start(): with no Stop() since the successful Start(), the loop takes no
\* signal from the stop channel.
C37_NoStaleStopSignal ==
    [][(lastCall = "Start" /\ ret = "nil") => ~(chanStop' < chanStop)]_vars

\* C39: the published muted flag agrees with the output: a status that says
\* muted has a silenced output, and a status that says not muted with a
\* volume above 0 has an output that is not silenced.
C39_MutedMeansSilent ==
    /\ status.Muted => silent
    /\ (~status.Muted /\ status.Volume > 0) => ~silent

\* C40: a stopped device is never paused, and playSongFromReader having
\* started a track leaves the device Playing and not paused.
C40_PausedOnlyWhilePlaying ==
    /\ status.State = "Stopped" => (~ctrlPaused /\ ~status.Paused)
    /\ lastCall = "play" => (status.State = "Playing" /\ ~ctrlPaused /\ ~status.Paused)

\* C38: the in-flight flag is true only while some downloadSong invocation is
\* between setting it and resetting it, and every invocation that leaves that
\* stretch (on success or on any failure) leaves the flag false.
C38_FlagOnlyWhileDownloading ==
    /\ [](downloadingSong => InFlight # {})
    /\ [][\A p \in Procs : (inv[p].pc = "reset" /\ inv'[p].pc # "reset")
                            => ~downloadingSong']_vars

\* an invocation whose metadata lookup failed has returned (its reader is
\* open and nothing holds it), no other is running, and the flag is false
C38_Witness ==
    /\ ~downloadingSong
    /\ \A p \in Procs : inv[p].pc = "idle"
    /\ \E r \in Readers : readers[r] = "open" /\ ~ReaderHeld(r)

====
